---- MODULE Spec2Model ----
(***************************************************************************)
(* ESIMarket_Tool: the HTTP fetch / retry / rate-limit / caching engine.   *)
(*   cache.py        HistoryCache (conditional-request cache)              *)
(*   esi_client.py   ESIClient.fetch_market_history / fetch_market_orders  *)
(*   rate_limiter.py TokenBucketRateLimiter                                *)
(* Three specifications share the variables:                               *)
(*   Spec        one call of fetch_market_history or fetch_market_orders   *)
(*   SpecCache   a HistoryCache driven by put / load / save                *)
(*   SpecLimiter a TokenBucketRateLimiter with concurrent callers          *)
(* A specification leaves the variables of the other components alone.     *)
(***************************************************************************)
EXTENDS Integers, Sequences, FiniteSets, TLC

(* ------------------------------ bounds -------------------------------- *)
\* longest type_ids list given to fetch_market_history
MaxKeys == 2
\* HTTP requests one fetch call may issue before the model stops the server
MaxRequests == 3
\* largest configured max_retries
MaxRetries == 1
\* largest page count the server reports in X-Pages
MaxPages == 2
\* configured retry_delay and retry_backoff_factor
RetryDelay == 2
RetryBackoff == 2
\* units a token is divided into (the token count is a float)
TokenUnit == 2
\* concurrent callers of acquire(), acquire() calls begun, largest
\* burst_size, last tick of the clock
NumCallers == 2
MaxAcquires == 4
MaxBurst == 2
MaxTime == 4

(* ------------------------------ values -------------------------------- *)
\* type ids the caller may ask for
Keys == {34, 35}

\* a dict with no key
EmptyMap == [x \in {} |-> ""]

\* dict.update: the keys of b win
Update(a, b) == [x \in (DOMAIN a) \cup (DOMAIN b) |-> IF x \in DOMAIN b THEN b[x] ELSE a[x]]

\* a dict holding at most the one key name, with a value of vals
OptMap(name, vals) == {EmptyMap} \cup {[x \in {name} |-> v] : v \in vals}

\* d.get(name, default)
GetOr(d, name, default) == IF name \in DOMAIN d THEN d[name] ELSE default

Range(s) == {s[i] : i \in DOMAIN s}

\* as Stamp, but a type_id the record already carries is kept (setdefault)
Stamp_KeepExisting(rec, k) ==
    [f \in (DOMAIN rec) \cup {"type_id"} |-> IF f \in DOMAIN rec THEN rec[f] ELSE k]

\* entry['type_id'] = item on a dict
Stamp(rec, k) == [f \in (DOMAIN rec) \cup {"type_id"} |-> IF f = "type_id" THEN k ELSE rec[f]]

StampAll(recs, k) == [i \in DOMAIN recs |-> Stamp(recs[i], k)]

(* ------------------------------ state --------------------------------- *)
VARIABLES
    \* HistoryCache._entries: a dict type_id -> CacheEntry
    entries,
    \* the cache file at HistoryCache._path, the temporary file of a save() in
    \* progress, where that save() stands, and the exception the last cache
    \* operation let escape ("" when none)
    file, tmp_file, save_pc, cache_exc,
    \* the keys put on the HistoryCache instance since it was constructed, and
    \* whether load() has been called on it
    put_keys, loaded,
    \* ESIClient configuration: history_cache is not None, max_retries
    use_cache, max_retries,
    \* which fetch operation this call is, and where it stands
    op, pc,
    \* fetch_market_history locals (response: the reply being handled)
    type_ids, items_processed, page, max_pages, skip_cache, retries, req_headers,
    response,
    \* fetch_market_orders local
    total_pages,
    \* the FetchResult being built
    result,
    \* the duration of the asyncio.sleep the fetch is in (0: not sleeping)
    sleep_time,
    \* completed rate_limiter.acquire() calls and issued session.get() calls
    acquires, requests,
    \* history of the call, per position of type_ids: records appended,
    \* 200 pages accepted, requests issued, replies that were a plain error
    \* (a status other than 200 and 304, error budget absent or at least 2),
    \* how the position ended
    appended, pages_ok, item_requests, item_errors, outcome,
    \* TokenBucketRateLimiter: _burst_size, _tokens_per_second, _tokens,
    \* _last_refill, the asyncio.Lock (_locked and its FIFO of waiters)
    burst_size, tokens_per_second, tokens, last_refill, locked, waiters,
    \* time.monotonic(), in ticks
    now,
    \* where each caller of acquire() stands, and the acquire() calls begun
    \* and completed so far
    caller_pc, started, completed

cacheVars == <<entries, file, tmp_file, save_pc, cache_exc, put_keys, loaded>>
configVars == <<use_cache, max_retries>>
fetchVars == <<op, pc, type_ids, items_processed, page, max_pages, skip_cache, retries,
               req_headers, response, total_pages, result, sleep_time, acquires,
               requests, appended, pages_ok, item_requests, item_errors, outcome>>
limiterVars == <<burst_size, tokens_per_second, tokens, last_refill, locked, waiters, now,
                 caller_pc, started, completed>>
vars == <<cacheVars, configVars, fetchVars, limiterVars>>

(* --------------------------- HistoryCache ----------------------------- *)
CacheEntry(etag, last_modified, data) == [etag |-> etag, last_modified |-> last_modified, data |-> data]

\* as entry_count, counting only the entries that hold records
entry_count_WithRecords == Cardinality({k \in DOMAIN entries : entries[k].data # <<>>})

\* HistoryCache.entry_count
entry_count == Cardinality(DOMAIN entries)

\* as has_data, without the test on the record list
has_data_AnyEntry(type_id) == type_id \in DOMAIN entries

\* HistoryCache.has_data
has_data(type_id) == type_id \in DOMAIN entries /\ Len(entries[type_id].data) > 0

\* as get_conditional_headers, without the test on the record list
get_conditional_headers_NoValve(type_id) ==
    IF type_id \notin DOMAIN entries THEN EmptyMap
    ELSE Update(IF entries[type_id].etag # ""
                THEN [x \in {"If-None-Match"} |-> entries[type_id].etag] ELSE EmptyMap,
                IF entries[type_id].last_modified # ""
                THEN [x \in {"If-Modified-Since"} |-> entries[type_id].last_modified] ELSE EmptyMap)

\* as get_conditional_headers, the tag being the only validator sent
get_conditional_headers_EtagOnly(type_id) ==
    IF type_id \notin DOMAIN entries THEN EmptyMap
    ELSE IF entries[type_id].data = <<>> THEN EmptyMap
    ELSE IF entries[type_id].etag # ""
         THEN [x \in {"If-None-Match"} |-> entries[type_id].etag] ELSE EmptyMap

\* as get_conditional_headers, both validators sent whatever they hold
get_conditional_headers_AlwaysBoth(type_id) ==
    IF type_id \notin DOMAIN entries THEN EmptyMap
    ELSE IF entries[type_id].data = <<>> THEN EmptyMap
    ELSE [x \in {"If-None-Match", "If-Modified-Since"} |->
            IF x = "If-None-Match" THEN entries[type_id].etag
            ELSE entries[type_id].last_modified]

\* HistoryCache.get_conditional_headers
get_conditional_headers(type_id) ==
    IF type_id \notin DOMAIN entries THEN EmptyMap
    ELSE IF entries[type_id].data = <<>> THEN EmptyMap
    ELSE Update(IF entries[type_id].etag # ""
                THEN [x \in {"If-None-Match"} |-> entries[type_id].etag] ELSE EmptyMap,
                IF entries[type_id].last_modified # ""
                THEN [x \in {"If-Modified-Since"} |-> entries[type_id].last_modified] ELSE EmptyMap)

\* Python's None
None == [none |-> TRUE]

\* HistoryCache.get
get(type_id) == IF type_id \in DOMAIN entries THEN entries[type_id] ELSE None

\* as put, the validators of an entry already held being kept
put_KeepsValidators(type_id, etag, last_modified, data) ==
    IF type_id \in DOMAIN entries
    THEN Update(entries, (type_id :> CacheEntry(entries[type_id].etag,
                                                 entries[type_id].last_modified, data)))
    ELSE Update(entries, (type_id :> CacheEntry(etag, last_modified, data)))

\* as put, the new entry being the only one kept
put_DropsOthers(type_id, etag, last_modified, data) ==
    [k \in {type_id} |-> CacheEntry(etag, last_modified, data)]

\* HistoryCache.put: the dict after self._entries[type_id] = CacheEntry(...)
put(type_id, etag, last_modified, data) ==
    [k \in (DOMAIN entries) \cup {type_id} |->
        IF k = type_id THEN CacheEntry(etag, last_modified, data) ELSE entries[k]]

\* str(type_id) and int(key) on the keys of the JSON object
KeyStrings == {"34", "35", "abc"}

str_key(type_id) == CASE type_id = 34 -> "34" [] type_id = 35 -> "35"

IsIntString(s) == s \in {"34", "35"}

int_key(s) == CASE s = "34" -> 34 [] s = "35" -> 35

\* a value of the JSON object: a dict (its fields), or something else
JsonDict(fields) == [isdict |-> TRUE, fields |-> fields]

NonDict == [isdict |-> FALSE, fields |-> EmptyMap]

\* files: absent, not JSON, JSON that is no object, a JSON object
MissingFile == [kind |-> "missing"]

InvalidFile == [kind |-> "invalid"]

NonObjectFile == [kind |-> "json", top |-> "list", items |-> EmptyMap]

ObjectFile(items) == [kind |-> "json", top |-> "object", items |-> items]

\* as Serialize, the records left out of the file
Serialize_NoData(es) ==
    ObjectFile([s \in {str_key(k) : k \in DOMAIN es} |->
        LET k == CHOOSE k \in DOMAIN es : str_key(k) = s
        IN  JsonDict([f \in {"etag", "last_modified", "data"} |->
                IF f = "data" THEN <<>> ELSE es[k][f]])])

\* the dict save() serializes and json.dump writes
Serialize(es) ==
    ObjectFile([s \in {str_key(k) : k \in DOMAIN es} |->
        LET k == CHOOSE k \in DOMAIN es : str_key(k) = s
        IN  JsonDict([f \in {"etag", "last_modified", "data"} |-> es[k][f]])])

\* the CacheEntry load() builds from a dict value
EntryOfValue(value) ==
    CacheEntry(GetOr(value.fields, "etag", ""),
               GetOr(value.fields, "last_modified", ""),
               GetOr(value.fields, "data", <<>>))

\* as LoadResult, the decode error of a file that is not JSON escaping
LoadResult_DecodeErrorEscapes(f, es) ==
    IF f.kind = "missing" THEN [entries |-> es, exc |-> ""]
    ELSE IF f.kind = "invalid" THEN [entries |-> es, exc |-> "JSONDecodeError"]
    ELSE IF f.top # "object" THEN [entries |-> es, exc |-> "AttributeError"]
    ELSE LET dicts == {s \in DOMAIN f.items : f.items[s].isdict}
         IN  IF \E s \in dicts : ~IsIntString(s)
             THEN [entries |-> EmptyMap, exc |-> ""]
             ELSE LET read == {int_key(s) : s \in dicts}
                  IN  [entries |-> [k \in (DOMAIN es) \cup read |->
                                     IF k \in read
                                     THEN EntryOfValue(f.items[str_key(k)])
                                     ELSE es[k]],
                       exc |-> ""]

\* HistoryCache.load: the entries afterwards and the exception that escapes
LoadResult(f, es) ==
    IF f.kind = "missing" THEN [entries |-> es, exc |-> ""]
    ELSE IF f.kind = "invalid" THEN [entries |-> EmptyMap, exc |-> ""]
    ELSE IF f.top # "object" THEN [entries |-> es, exc |-> "AttributeError"]
    ELSE LET dicts == {s \in DOMAIN f.items : f.items[s].isdict}
         IN  IF \E s \in dicts : ~IsIntString(s)
             THEN [entries |-> EmptyMap, exc |-> ""]
             ELSE LET read == {int_key(s) : s \in dicts}
                  IN  [entries |-> [k \in (DOMAIN es) \cup read |->
                                     IF k \in read
                                     THEN EntryOfValue(f.items[str_key(k)])
                                     ELSE es[k]],
                       exc |-> ""]

\* HistoryCache.__init__ on the same path: a new instance, no entry (a
\* temporary file a crashed save() left behind is no longer followed)
NewInstance ==
    /\ save_pc \in {"idle", "crashed"}
    /\ entries' = EmptyMap
    /\ save_pc' = "idle"
    /\ cache_exc' = ""
    /\ tmp_file' = MissingFile
    /\ put_keys' = {} /\ loaded' = FALSE
    /\ UNCHANGED file
    /\ UNCHANGED <<configVars, fetchVars, limiterVars>>

\* what callers put: validators (empty = absent) and records
PutEtags == {"", "e1"}

PutLastModified == {"", "m1"}

PutData(k) == {<<>>, <<[date |-> "d1", type_id |-> k]>>}

CachePut ==
    /\ save_pc = "idle"
    /\ \E k \in Keys, etag \in PutEtags, lm \in PutLastModified :
         \E data \in PutData(k) :
            /\ entries' = put(k, etag, lm, data)
            /\ put_keys' = put_keys \cup {k}
    /\ cache_exc' = ""
    /\ UNCHANGED <<file, tmp_file, save_pc, loaded>>
    /\ UNCHANGED <<configVars, fetchVars, limiterVars>>

CacheLoad ==
    /\ save_pc = "idle"
    /\ entries' = LoadResult(file, entries).entries
    /\ cache_exc' = LoadResult(file, entries).exc
    /\ loaded' = TRUE
    /\ UNCHANGED <<file, tmp_file, save_pc, put_keys>>
    /\ UNCHANGED <<configVars, fetchVars, limiterVars>>

\* save(), line 78: parent.mkdir, outside the try
SaveMkdir ==
    /\ save_pc = "idle"
    /\ \/ save_pc' = "mkstemp" /\ cache_exc' = ""
       \/ save_pc' = "idle" /\ cache_exc' = "OSError"
    /\ UNCHANGED <<entries, file, tmp_file, put_keys, loaded>>
    /\ UNCHANGED <<configVars, fetchVars, limiterVars>>

\* save(), lines 90-94: tempfile.mkstemp creates an empty file, or fails
SaveMkstemp ==
    /\ save_pc = "mkstemp"
    /\ \/ save_pc' = "write" /\ tmp_file' = InvalidFile
       \/ save_pc' = "idle" /\ tmp_file' = tmp_file
    /\ UNCHANGED <<entries, file, cache_exc, put_keys, loaded>>
    /\ UNCHANGED <<configVars, fetchVars, limiterVars>>

\* as SaveWrite, json.dump writing into the destination itself
SaveWrite_InPlace ==
    /\ save_pc = "write"
    /\ \/ save_pc' = "replace" /\ file' = Serialize(entries)
       \/ save_pc' = "idle" /\ file' = InvalidFile
    /\ tmp_file' = MissingFile
    /\ UNCHANGED <<entries, cache_exc, put_keys, loaded>>
    /\ UNCHANGED <<configVars, fetchVars, limiterVars>>

\* save(), lines 95-96: json.dump into the temporary file; on OSError the
\* handler unlinks it
SaveWrite ==
    /\ save_pc = "write"
    /\ \/ save_pc' = "replace" /\ tmp_file' = Serialize(entries)
       \/ save_pc' = "idle" /\ tmp_file' = MissingFile
    /\ UNCHANGED <<entries, file, cache_exc, put_keys, loaded>>
    /\ UNCHANGED <<configVars, fetchVars, limiterVars>>

\* save(), line 97: rename over the destination; on OSError unlink
SaveReplace ==
    /\ save_pc = "replace"
    /\ \/ file' = tmp_file /\ tmp_file' = MissingFile
       \/ file' = file /\ tmp_file' = MissingFile
    /\ save_pc' = "idle"
    /\ UNCHANGED <<entries, cache_exc, put_keys, loaded>>
    /\ UNCHANGED <<configVars, fetchVars, limiterVars>>

\* the process dies inside save()
SaveCrash ==
    /\ save_pc \in {"mkstemp", "write", "replace"}
    /\ save_pc' = "crashed"
    /\ UNCHANGED <<entries, file, tmp_file, cache_exc, put_keys, loaded>>
    /\ UNCHANGED <<configVars, fetchVars, limiterVars>>

\* values found in the JSON object of a file on disk: no dict, a dict
\* without fields, validators without data, a whole entry
FullValue ==
    JsonDict([f \in {"etag", "last_modified", "data"} |->
        CASE f = "etag" -> "e0" [] f = "last_modified" -> "m0"
          [] f = "data" -> <<[date |-> "d0"]>>])

InitFileValues ==
    {NonDict, JsonDict(EmptyMap),
     JsonDict([f \in {"etag", "last_modified"} |-> IF f = "etag" THEN "e0" ELSE "m0"]),
     FullValue}

\* the JSON objects found on disk: any value under "34", a whole entry or
\* nothing under "35", and possibly a key that is no integer
InitObjects ==
    {Update(Update(a, b), c) :
        a \in OptMap("34", InitFileValues),
        b \in OptMap("35", {FullValue}),
        c \in OptMap("abc", {NonDict, FullValue})}

\* files found on disk when the program starts
InitFiles ==
    {MissingFile, InvalidFile, NonObjectFile} \cup {ObjectFile(items) : items \in InitObjects}

(* ----------------------------- ESIClient ------------------------------ *)
\* FetchResult(): the dataclass defaults
FetchResult ==
    [data |-> <<>>, pages_fetched |-> 0, error_count |-> 0, total_retries |-> 0,
     failed_items |-> <<>>, cache_hits |-> 0]

\* ESIClient._public_headers
public_headers == ("accept" :> "application/json") @@ ("User-Agent" :> "ua")

\* ESIClient._auth_headers
auth_headers ==
    ("Authorization" :> "Bearer t") @@ ("Content-Type" :> "application/json")
    @@ ("User-Agent" :> "ua")

RECURSIVE Pow(_, _)
Pow(b, n) == IF n = 0 THEN 1 ELSE b * Pow(b, n - 1)

\* as BackoffDelay, the retry count being taken after its increment
BackoffDelay_AfterIncrement(n) == RetryDelay * Pow(RetryBackoff, n + 1)

\* self._retry_delay * (self._retry_backoff ** retries)
BackoffDelay(n) == RetryDelay * Pow(RetryBackoff, n)

\* what the transport hands back: a response (status, headers, how the body
\* decodes) or a timeout before any response
Reply(status, headers, body, payload) ==
    [timeout |-> FALSE, status |-> status, headers |-> headers, body |-> body,
     payload |-> payload]

TimeoutReply == [timeout |-> TRUE, status |-> 0, headers |-> EmptyMap, body |-> "none", payload |-> <<>>]

NoResponse == [timeout |-> FALSE, status |-> 0, headers |-> EmptyMap, body |-> "none", payload |-> <<>>]

\* X-Pages: absent, one page, the largest page count
XPagesHeaders == OptMap("X-Pages", {1, MaxPages})

\* the server's error budget as fetch_market_history reads it: absent, ample,
\* nearly exhausted without and with a reset time
HistoryBudgetHeaders ==
    {EmptyMap,
     ("X-ESI-Error-Limit-Remain" :> 100),
     ("X-ESI-Error-Limit-Remain" :> 1),
     ("X-ESI-Error-Limit-Remain" :> 1) @@ ("X-ESI-Error-Limit-Reset" :> 7)}

ValidatorHeaders ==
    {EmptyMap, ("ETag" :> "e1"), ("ETag" :> "e1") @@ ("Last-Modified" :> "m1")}

\* decoded bodies: no record, or two records of which one names a type_id
Payloads == {<<>>, <<[date |-> "d2", type_id |-> 35], [date |-> "d1"]>>}

\* the replies to a history request. Headers the code does not read for a
\* status are left out of it; X-Pages accompanies any status
HistoryReplies ==
    {TimeoutReply}
    \cup {Reply(304, h, "none", <<>>) : h \in XPagesHeaders}
    \cup {Reply(500, b, "json", <<>>) : b \in HistoryBudgetHeaders}
    \cup {Reply(500, h, "json", <<>>) : h \in XPagesHeaders}
    \cup {Reply(200, EmptyMap, "bad", <<>>)}
    \cup {Reply(200, h, "timeout", <<>>) : h \in XPagesHeaders}
    \cup {Reply(200, Update(h, v), "json", p) :
            h \in XPagesHeaders, v \in ValidatorHeaders, p \in Payloads}

\* a reply with a status other than 200 and 304 whose error budget header is
\* absent or at least 2
PlainError(r) ==
    /\ ~r.timeout /\ r.status \notin {200, 304}
    /\ GetOr(r.headers, "X-ESI-Error-Limit-Remain", 2) >= 2

\* as item, the first key being taken at every turn of the for loop
item_AlwaysFirst == type_ids[1]

\* the key the for loop is at
item == type_ids[items_processed]

Bump(f, i, n) == [f EXCEPT ![i] = @ + n]

\* lines 210-223: the for loop takes the next key
ForNext ==
    /\ op = "history" /\ pc = "for"
    /\ items_processed < Len(type_ids)
    /\ items_processed' = items_processed + 1
    /\ page' = 1
    /\ max_pages' = 1
    /\ skip_cache' = FALSE
    /\ pc' = "while"
    /\ UNCHANGED <<op, type_ids, retries, req_headers, response, total_pages, result,
                   sleep_time, acquires, requests, appended, pages_ok, item_requests, item_errors,
                   outcome>>
    /\ UNCHANGED <<cacheVars, configVars, limiterVars>>

\* lines 330-339: the list is exhausted, the call returns result
HistoryReturn ==
    /\ op = "history" /\ pc = "for"
    /\ items_processed = Len(type_ids)
    /\ pc' = "done"
    /\ UNCHANGED <<op, type_ids, items_processed, page, max_pages, skip_cache, retries,
                   req_headers, response, total_pages, result, sleep_time, acquires,
                   requests, appended, pages_ok, item_requests, item_errors, outcome>>
    /\ UNCHANGED <<cacheVars, configVars, limiterVars>>

\* as BuildHeaders, without the test on skip_cache
BuildHeaders_IgnoreSkip ==
    IF use_cache
    THEN Update(public_headers, get_conditional_headers(item))
    ELSE public_headers

\* as BuildHeaders, an empty If-None-Match being sent when the cache is not
\* consulted
BuildHeaders_EmptyValidator ==
    IF use_cache /\ ~skip_cache
    THEN Update(public_headers, get_conditional_headers(item))
    ELSE Update(public_headers, ("If-None-Match" :> ""))

\* lines 228-231: the request headers, with the cache's conditional headers
BuildHeaders ==
    IF use_cache /\ ~skip_cache
    THEN Update(public_headers, get_conditional_headers(item))
    ELSE public_headers

\* lines 225-231: the while test holds; build the headers
WhileBody ==
    /\ op = "history" /\ pc = "while"
    /\ page <= max_pages
    /\ req_headers' = BuildHeaders
    /\ pc' = "acquire"
    /\ UNCHANGED <<op, type_ids, items_processed, page, max_pages, skip_cache, retries,
                   response, total_pages, result, sleep_time, acquires, requests,
                   appended, pages_ok, item_requests, item_errors, outcome>>
    /\ UNCHANGED <<cacheVars, configVars, limiterVars>>

\* line 225: the while test fails, the loop for this key ends
WhileExit ==
    /\ op = "history" /\ pc = "while"
    /\ page > max_pages
    /\ pc' = "after_while"
    /\ outcome' = [outcome EXCEPT ![items_processed] = "success"]
    /\ UNCHANGED <<op, type_ids, items_processed, page, max_pages, skip_cache, retries,
                   req_headers, response, total_pages, result, sleep_time, acquires,
                   requests, appended, pages_ok, item_requests, item_errors>>
    /\ UNCHANGED <<cacheVars, configVars, limiterVars>>

\* lines 327-328, after the while loop and after every break
AfterWhile ==
    /\ op = "history" /\ pc = "after_while"
    /\ result' = [result EXCEPT !.total_retries = @ + retries]
    /\ retries' = 0
    /\ pc' = "for"
    /\ UNCHANGED <<op, type_ids, items_processed, page, max_pages, skip_cache,
                   req_headers, response, total_pages, sleep_time, acquires, requests,
                   appended, pages_ok, item_requests, item_errors, outcome>>
    /\ UNCHANGED <<cacheVars, configVars, limiterVars>>

\* line 233: await self._rate_limiter.acquire() completes
HistoryAcquire ==
    /\ op = "history" /\ pc = "acquire"
    /\ acquires' = acquires + 1
    /\ pc' = "get"
    /\ UNCHANGED <<op, type_ids, items_processed, page, max_pages, skip_cache, retries,
                   req_headers, response, total_pages, result, sleep_time, requests,
                   appended, pages_ok, item_requests, item_errors, outcome>>
    /\ UNCHANGED <<cacheVars, configVars, limiterVars>>

\* lines 234-238: the request goes out with req_headers and the transport
\* answers
HistoryGet ==
    /\ op = "history" /\ pc = "get"
    /\ requests < MaxRequests
    /\ requests' = requests + 1
    /\ item_requests' = Bump(item_requests, items_processed, 1)
    /\ \E r \in HistoryReplies :
         /\ response' = r
         /\ item_errors' = Bump(item_errors, items_processed, IF PlainError(r) THEN 1 ELSE 0)
    /\ pc' = "handle"
    /\ UNCHANGED <<op, type_ids, items_processed, page, max_pages, skip_cache, retries,
                   req_headers, total_pages, result, sleep_time, acquires, appended,
                   pages_ok, outcome>>
    /\ UNCHANGED <<cacheVars, configVars, limiterVars>>

\* lines 245-246: X-Pages, when present, replaces max_pages
NewMaxPages == GetOr(response.headers, "X-Pages", max_pages)

\* asyncio.TimeoutError reaches the except clause of line 315: no response
\* in time, or the body of a 200 not read in time (line 288)
TimedOut == response.timeout \/ (response.status = 200 /\ response.body = "timeout")

\* line 249: a 304 with a cache configured
NotModified == ~response.timeout /\ response.status = 304 /\ use_cache

\* as ErrorStatus, tested before the 304 branch: a 304 counts as an error
ErrorStatus_Counts304 == ~response.timeout /\ response.status # 200

\* line 263: any other status than 200
ErrorStatus == ~response.timeout /\ response.status # 200 /\ ~NotModified

\* as BudgetLow, looked at only while a local retry is left
BudgetLow_AfterRetryTest ==
    /\ retries < max_retries
    /\ "X-ESI-Error-Limit-Remain" \in DOMAIN response.headers
    /\ response.headers["X-ESI-Error-Limit-Remain"] < 2

\* line 273: the server's error budget is nearly used up
BudgetLow ==
    /\ "X-ESI-Error-Limit-Remain" \in DOMAIN response.headers
    /\ response.headers["X-ESI-Error-Limit-Remain"] < 2

\* as RetriesLeft, off by one
RetriesLeft_OffByOne == retries <= max_retries

\* as GiveUp, without recording the key
GiveUp_Forget(res) == res

\* lines 285, 324: result.failed_items.append(item)
GiveUp(res) == [res EXCEPT !.failed_items = Append(@, item)]

\* lines 137, 278, 317: retries < self._max_retries
RetriesLeft == retries < max_retries

\* as Handle304Hit, the while loop going on after the hit instead of
\* breaking
Handle304Hit_Continues ==
    /\ op = "history" /\ pc = "handle"
    /\ NotModified /\ has_data(item)
    /\ max_pages' = NewMaxPages
    /\ result' = [result EXCEPT !.data = @ \o entries[item].data,
                                !.cache_hits = @ + 1,
                                !.pages_fetched = @ + 1]
    /\ appended' = Bump(appended, items_processed, Len(entries[item].data))
    /\ outcome' = [outcome EXCEPT ![items_processed] = "hit"]
    /\ response' = NoResponse
    /\ pc' = "while"
    /\ UNCHANGED <<op, type_ids, items_processed, page, skip_cache, retries, req_headers,
                   total_pages, sleep_time, acquires, requests, pages_ok, item_requests, item_errors>>
    /\ UNCHANGED <<cacheVars, configVars, limiterVars>>

\* lines 250-256: 304 and the cache has records: take them, break
Handle304Hit ==
    /\ op = "history" /\ pc = "handle"
    /\ NotModified /\ has_data(item)
    /\ max_pages' = NewMaxPages
    /\ result' = [result EXCEPT !.data = @ \o entries[item].data,
                                !.cache_hits = @ + 1,
                                !.pages_fetched = @ + 1]
    /\ appended' = Bump(appended, items_processed, Len(entries[item].data))
    /\ outcome' = [outcome EXCEPT ![items_processed] = "hit"]
    /\ response' = NoResponse
    /\ pc' = "after_while"
    /\ UNCHANGED <<op, type_ids, items_processed, page, skip_cache, retries, req_headers,
                   total_pages, sleep_time, acquires, requests, pages_ok, item_requests, item_errors>>
    /\ UNCHANGED <<cacheVars, configVars, limiterVars>>

\* lines 257-261: 304 but no cached records: retry without the cache
Handle304Degraded ==
    /\ op = "history" /\ pc = "handle"
    /\ NotModified /\ ~has_data(item)
    /\ max_pages' = NewMaxPages
    /\ skip_cache' = TRUE
    /\ response' = NoResponse
    /\ pc' = "while"
    /\ UNCHANGED <<op, type_ids, items_processed, page, retries, req_headers, total_pages,
                   result, sleep_time, acquires, requests, appended, pages_ok,
                   item_requests, item_errors, outcome>>
    /\ UNCHANGED <<cacheVars, configVars, limiterVars>>

\* lines 263-277: error status, budget nearly used up: sleep the reset time
HandleErrorCooldown ==
    /\ op = "history" /\ pc = "handle"
    /\ ErrorStatus /\ BudgetLow
    /\ max_pages' = NewMaxPages
    /\ result' = [result EXCEPT !.error_count = @ + 1]
    /\ sleep_time' = GetOr(response.headers, "X-ESI-Error-Limit-Reset", 60)
    /\ response' = NoResponse
    /\ pc' = "sleep"
    /\ UNCHANGED <<op, type_ids, items_processed, page, skip_cache, retries, req_headers,
                   total_pages, acquires, requests, appended, pages_ok, item_requests, item_errors,
                   outcome>>
    /\ UNCHANGED <<cacheVars, configVars, limiterVars>>

\* lines 278-282: error status, retries left: back off
HandleErrorRetry ==
    /\ op = "history" /\ pc = "handle"
    /\ ErrorStatus /\ ~BudgetLow
    /\ RetriesLeft
    /\ max_pages' = NewMaxPages
    /\ result' = [result EXCEPT !.error_count = @ + 1]
    /\ sleep_time' = BackoffDelay(retries)
    /\ retries' = retries + 1
    /\ response' = NoResponse
    /\ pc' = "sleep"
    /\ UNCHANGED <<op, type_ids, items_processed, page, skip_cache, req_headers,
                   total_pages, acquires, requests, appended, pages_ok, item_requests, item_errors,
                   outcome>>
    /\ UNCHANGED <<cacheVars, configVars, limiterVars>>

\* lines 283-286: error status, no retry left: the key has failed, break
HandleErrorGiveUp ==
    /\ op = "history" /\ pc = "handle"
    /\ ErrorStatus /\ ~BudgetLow
    /\ ~RetriesLeft
    /\ max_pages' = NewMaxPages
    /\ result' = GiveUp([result EXCEPT !.error_count = @ + 1])
    /\ outcome' = [outcome EXCEPT ![items_processed] = "failed"]
    /\ response' = NoResponse
    /\ pc' = "after_while"
    /\ UNCHANGED <<op, type_ids, items_processed, page, skip_cache, retries, req_headers,
                   total_pages, sleep_time, acquires, requests, appended, pages_ok,
                   item_requests, item_errors>>
    /\ UNCHANGED <<cacheVars, configVars, limiterVars>>

\* lines 288-313: a 200 whose body decodes: store it in the cache, stamp
\* the records, append them, next page
Handle200 ==
    /\ op = "history" /\ pc = "handle"
    /\ ~response.timeout /\ response.status = 200 /\ response.body = "json"
    /\ max_pages' = NewMaxPages
    /\ entries' = IF use_cache
                  THEN put(item, GetOr(response.headers, "ETag", ""),
                           GetOr(response.headers, "Last-Modified", ""),
                           StampAll(response.payload, item))
                  ELSE entries
    /\ put_keys' = IF use_cache THEN put_keys \cup {item} ELSE put_keys
    /\ result' = [result EXCEPT !.data = @ \o StampAll(response.payload, item),
                                !.pages_fetched = @ + 1]
    /\ appended' = Bump(appended, items_processed, Len(response.payload))
    /\ pages_ok' = Bump(pages_ok, items_processed, 1)
    /\ retries' = 0
    /\ page' = page + 1
    /\ response' = NoResponse
    /\ pc' = "while"
    /\ UNCHANGED <<op, type_ids, items_processed, skip_cache, req_headers, total_pages,
                   sleep_time, acquires, requests, item_requests, item_errors, outcome>>
    /\ UNCHANGED <<file, tmp_file, save_pc, cache_exc, loaded, configVars, limiterVars>>

\* line 288: a 200 whose body is not JSON: the ValueError of response.json()
\* is caught nowhere and leaves fetch_market_history
Handle200Undecodable ==
    /\ op = "history" /\ pc = "handle"
    /\ ~response.timeout /\ response.status = 200 /\ response.body = "bad"
    /\ max_pages' = NewMaxPages
    /\ response' = NoResponse
    /\ pc' = "raised"
    /\ UNCHANGED <<op, type_ids, items_processed, page, skip_cache, retries, req_headers,
                   total_pages, result, sleep_time, acquires, requests, appended,
                   pages_ok, item_requests, item_errors, outcome>>
    /\ UNCHANGED <<cacheVars, configVars, limiterVars>>

\* lines 315-321: timeout, retries left: back off
HandleTimeoutRetry ==
    /\ op = "history" /\ pc = "handle"
    /\ TimedOut
    /\ RetriesLeft
    /\ max_pages' = IF response.timeout THEN max_pages ELSE NewMaxPages
    /\ sleep_time' = BackoffDelay(retries)
    /\ retries' = retries + 1
    /\ response' = NoResponse
    /\ pc' = "sleep"
    /\ UNCHANGED <<op, type_ids, items_processed, page, skip_cache, req_headers,
                   total_pages, result, acquires, requests, appended, pages_ok,
                   item_requests, item_errors, outcome>>
    /\ UNCHANGED <<cacheVars, configVars, limiterVars>>

\* lines 322-325: timeout, no retry left: the key has failed, break
HandleTimeoutGiveUp ==
    /\ op = "history" /\ pc = "handle"
    /\ TimedOut
    /\ ~RetriesLeft
    /\ max_pages' = IF response.timeout THEN max_pages ELSE NewMaxPages
    /\ result' = GiveUp(result)
    /\ outcome' = [outcome EXCEPT ![items_processed] = "failed"]
    /\ response' = NoResponse
    /\ pc' = "after_while"
    /\ UNCHANGED <<op, type_ids, items_processed, page, skip_cache, retries, req_headers,
                   total_pages, sleep_time, acquires, requests, appended, pages_ok,
                   item_requests, item_errors>>
    /\ UNCHANGED <<cacheVars, configVars, limiterVars>>

\* as HistorySleep, but the retry is sent at once, not through the limiter
HistorySleep_NoAcquire ==
    /\ op = "history" /\ pc = "sleep"
    /\ sleep_time' = 0
    /\ pc' = "get"
    /\ UNCHANGED <<op, type_ids, items_processed, page, max_pages, skip_cache, retries,
                   req_headers, response, total_pages, result, acquires, requests,
                   appended, pages_ok, item_requests, item_errors, outcome>>
    /\ UNCHANGED <<cacheVars, configVars, limiterVars>>

\* lines 276, 281, 320: await asyncio.sleep(...) ends, continue
HistorySleep ==
    /\ op = "history" /\ pc = "sleep"
    /\ sleep_time' = 0
    /\ pc' = "while"
    /\ UNCHANGED <<op, type_ids, items_processed, page, max_pages, skip_cache, retries,
                   req_headers, response, total_pages, result, acquires,
                   requests, appended, pages_ok, item_requests, item_errors, outcome>>
    /\ UNCHANGED <<cacheVars, configVars, limiterVars>>

HistoryNext ==
    \/ ForNext \/ HistoryReturn \/ WhileBody \/ WhileExit \/ AfterWhile
    \/ HistoryAcquire \/ HistoryGet
    \/ Handle304Hit \/ Handle304Degraded
    \/ HandleErrorCooldown \/ HandleErrorRetry \/ HandleErrorGiveUp
    \/ Handle200 \/ Handle200Undecodable
    \/ HandleTimeoutRetry \/ HandleTimeoutGiveUp
    \/ HistorySleep

\* cache entries a fetch may find: none, validators without records, records
\* with validators, records without validators
InitEntriesOf(k) ==
    {CacheEntry("e0", "m0", <<>>),
     CacheEntry("e0", "m0", <<[date |-> "d0", type_id |-> k]>>),
     CacheEntry("", "", <<[date |-> "d0", type_id |-> k]>>)}

InitCaches ==
    UNION {{e \in [S -> UNION {InitEntriesOf(k) : k \in S}] :
              \A k \in S : e[k] \in InitEntriesOf(k)} : S \in SUBSET Keys}

\* the lists of keys asked for; the keys being interchangeable, a list
\* starts with 34, and may name a key twice
TypeIdLists == {l \in UNION {[1..n -> Keys] : n \in 0..MaxKeys} : l = <<>> \/ l[1] = 34}

\* the limiter as constructed with its defaults, no caller inside
LimiterIdle ==
    /\ burst_size = 10 /\ tokens_per_second = 5
    /\ tokens = 10 * TokenUnit
    /\ last_refill = 0 /\ now = 0
    /\ locked = FALSE /\ waiters = <<>>
    /\ caller_pc = <<>>
    /\ started = 0 /\ completed = 0

\* no save() is running and nothing was put; the cache a history fetch is
\* given was filled by load() (cli.py 282-283)
CacheIdle ==
    /\ file = MissingFile
    /\ tmp_file = MissingFile
    /\ save_pc = "idle"
    /\ cache_exc = ""
    /\ put_keys = {}
    /\ loaded = (op = "history" /\ use_cache)

\* lines 196-208 of fetch_market_history, for a client constructed with a
\* max_retries of retry_limits and a call with a key list of id_lists
HistoryStart(retry_limits, id_lists) ==
    /\ op = "history" /\ pc = "for"
    /\ use_cache \in BOOLEAN
    /\ max_retries \in retry_limits
    /\ entries \in (IF use_cache THEN InitCaches ELSE {EmptyMap})
    /\ CacheIdle
    /\ type_ids \in id_lists
    /\ items_processed = 0
    /\ page = 1 /\ max_pages = 1 /\ skip_cache = FALSE
    /\ retries = 0
    /\ req_headers = EmptyMap
    /\ response = NoResponse
    /\ total_pages = 1
    /\ result = FetchResult
    /\ sleep_time = 0
    /\ acquires = 0 /\ requests = 0
    /\ appended = [i \in DOMAIN type_ids |-> 0]
    /\ pages_ok = [i \in DOMAIN type_ids |-> 0]
    /\ item_requests = [i \in DOMAIN type_ids |-> 0]
    /\ item_errors = [i \in DOMAIN type_ids |-> 0]
    /\ outcome = [i \in DOMAIN type_ids |-> "pending"]
    /\ LimiterIdle

HistoryInit == HistoryStart({0, MaxRetries}, TypeIdLists)

(* fetch_market_orders *)
\* orders as the server lists them
OrderPayloads == {<<>>, <<[order_id |-> 1]>>, <<[order_id |-> 2], [order_id |-> 3]>>}

\* the replies to an orders request: with the error budget absent or zero
\* nothing else of the reply is read; otherwise the budget is low or ample
OrdersReplies ==
    {TimeoutReply}
    \cup {Reply(st, EmptyMap, "json", <<>>) : st \in {200, 500}}
    \cup {Reply(st, ("X-ESI-Error-Limit-Remain" :> 0), "json", <<>>) : st \in {200, 500}}
    \cup {Reply(500, Update(h, ("X-ESI-Error-Limit-Remain" :> n)), "json", <<>>) :
            h \in XPagesHeaders, n \in {5, 100}}
    \cup {Reply(200, Update(h, ("X-ESI-Error-Limit-Remain" :> 100)), "bad", <<>>) :
            h \in XPagesHeaders}
    \cup {Reply(200, ("X-ESI-Error-Limit-Remain" :> 100), "timeout", <<>>)}
    \cup {Reply(200, Update(h, ("X-ESI-Error-Limit-Remain" :> n)), "json", p) :
            h \in XPagesHeaders, p \in OrderPayloads, n \in {5, 100}}

\* the variables fetch_market_orders never touches
historyOnly ==
    <<type_ids, items_processed, max_pages, skip_cache, req_headers, appended, pages_ok,
      item_requests, item_errors, outcome>>

\* line 105: the while test holds
OrdersWhileBody ==
    /\ op = "orders" /\ pc = "while"
    /\ page <= total_pages
    /\ pc' = "acquire"
    /\ UNCHANGED <<op, page, total_pages, retries, response, result, sleep_time, acquires,
                   requests>>
    /\ UNCHANGED <<historyOnly, cacheVars, configVars, limiterVars>>

\* lines 105, 165-171: the while test fails, the call returns result
OrdersWhileExit ==
    /\ op = "orders" /\ pc = "while"
    /\ page > total_pages
    /\ pc' = "done"
    /\ UNCHANGED <<op, page, total_pages, retries, response, result, sleep_time, acquires,
                   requests>>
    /\ UNCHANGED <<historyOnly, cacheVars, configVars, limiterVars>>

\* line 106: await self._rate_limiter.acquire() completes
OrdersAcquire ==
    /\ op = "orders" /\ pc = "acquire"
    /\ acquires' = acquires + 1
    /\ pc' = "get"
    /\ UNCHANGED <<op, page, total_pages, retries, response, result, sleep_time, requests>>
    /\ UNCHANGED <<historyOnly, cacheVars, configVars, limiterVars>>

\* line 107: the request for the page goes out and the transport answers
OrdersGet ==
    /\ op = "orders" /\ pc = "get"
    /\ requests < MaxRequests
    /\ requests' = requests + 1
    /\ \E r \in OrdersReplies : response' = r
    /\ pc' = "handle"
    /\ UNCHANGED <<op, page, total_pages, retries, result, sleep_time, acquires>>
    /\ UNCHANGED <<historyOnly, cacheVars, configVars, limiterVars>>

\* lines 108-109: X-Pages, when present, replaces total_pages
NewTotalPages == GetOr(response.headers, "X-Pages", total_pages)

\* as errors_left, a budget below 10 being taken for an exhausted one
errors_left_LowIsZero ==
    IF GetOr(response.headers, "X-ESI-Error-Limit-Remain", 0) < 10
    THEN 0 ELSE GetOr(response.headers, "X-ESI-Error-Limit-Remain", 0)

\* line 117: the remaining error budget, 0 when the header is absent
errors_left == GetOr(response.headers, "X-ESI-Error-Limit-Remain", 0)

\* line 107 or 151: asyncio.TimeoutError; fetch_market_orders has no handler
OrdersTimeout ==
    /\ op = "orders" /\ pc = "handle"
    /\ \/ response.timeout
       \/ errors_left # 0 /\ response.status = 200 /\ response.body = "timeout"
    /\ total_pages' = IF response.timeout THEN total_pages ELSE NewTotalPages
    /\ result' = IF response.timeout THEN result
                 ELSE [result EXCEPT !.total_retries = @ + retries]
    /\ retries' = IF response.timeout THEN retries ELSE 0
    /\ response' = NoResponse
    /\ pc' = "raised"
    /\ UNCHANGED <<op, page, sleep_time, acquires, requests>>
    /\ UNCHANGED <<historyOnly, cacheVars, configVars, limiterVars>>

\* lines 120-122: no error budget left: break, and the call returns
OrdersBudgetStop ==
    /\ op = "orders" /\ pc = "handle"
    /\ ~response.timeout /\ errors_left = 0
    /\ total_pages' = NewTotalPages
    /\ pc' = "done"
    /\ UNCHANGED <<op, page, retries, response, result, sleep_time, acquires, requests>>
    /\ UNCHANGED <<historyOnly, cacheVars, configVars, limiterVars>>

\* lines 127-141: error status, retries left: back off
OrdersErrorRetry ==
    /\ op = "orders" /\ pc = "handle"
    /\ ~response.timeout /\ errors_left # 0 /\ response.status # 200
    /\ RetriesLeft
    /\ total_pages' = NewTotalPages
    /\ result' = [result EXCEPT !.error_count = @ + 1]
    /\ sleep_time' = BackoffDelay(retries)
    /\ retries' = retries + 1
    /\ response' = NoResponse
    /\ pc' = "sleep"
    /\ UNCHANGED <<op, page, acquires, requests>>
    /\ UNCHANGED <<historyOnly, cacheVars, configVars, limiterVars>>

\* lines 142-144: error status, no retry left: break, and the call returns
OrdersErrorGiveUp ==
    /\ op = "orders" /\ pc = "handle"
    /\ ~response.timeout /\ errors_left # 0 /\ response.status # 200
    /\ ~RetriesLeft
    /\ total_pages' = NewTotalPages
    /\ result' = [result EXCEPT !.error_count = @ + 1]
    /\ response' = NoResponse
    /\ pc' = "done"
    /\ UNCHANGED <<op, page, retries, sleep_time, acquires, requests>>
    /\ UNCHANGED <<historyOnly, cacheVars, configVars, limiterVars>>

\* line 140: await asyncio.sleep(delay) ends, continue
OrdersSleep ==
    /\ op = "orders" /\ pc = "sleep"
    /\ sleep_time' = 0
    /\ pc' = "while"
    /\ UNCHANGED <<op, page, total_pages, retries, response, result, acquires, requests>>
    /\ UNCHANGED <<historyOnly, cacheVars, configVars, limiterVars>>

\* as OrdersUndecodable, the page being passed over
OrdersUndecodable_NextPage ==
    /\ op = "orders" /\ pc = "handle"
    /\ ~response.timeout /\ errors_left # 0 /\ response.status = 200
    /\ response.body = "bad"
    /\ total_pages' = NewTotalPages
    /\ result' = [result EXCEPT !.total_retries = @ + retries,
                                !.error_count = @ + 1]
    /\ retries' = 0
    /\ page' = page + 1
    /\ response' = NoResponse
    /\ pc' = "while"
    /\ UNCHANGED <<op, sleep_time, acquires, requests>>
    /\ UNCHANGED <<historyOnly, cacheVars, configVars, limiterVars>>

\* lines 146-155: a 200 whose body is not JSON: count an error, continue
OrdersUndecodable ==
    /\ op = "orders" /\ pc = "handle"
    /\ ~response.timeout /\ errors_left # 0 /\ response.status = 200
    /\ response.body = "bad"
    /\ total_pages' = NewTotalPages
    /\ result' = [result EXCEPT !.total_retries = @ + retries,
                                !.error_count = @ + 1]
    /\ retries' = 0
    /\ response' = NoResponse
    /\ pc' = "while"
    /\ UNCHANGED <<op, page, sleep_time, acquires, requests>>
    /\ UNCHANGED <<historyOnly, cacheVars, configVars, limiterVars>>

\* lines 146-159: a 200 with an empty list: break, and the call returns
OrdersEmptyPage ==
    /\ op = "orders" /\ pc = "handle"
    /\ ~response.timeout /\ errors_left # 0 /\ response.status = 200
    /\ response.body = "json" /\ response.payload = <<>>
    /\ total_pages' = NewTotalPages
    /\ result' = [result EXCEPT !.total_retries = @ + retries]
    /\ retries' = 0
    /\ response' = NoResponse
    /\ pc' = "done"
    /\ UNCHANGED <<op, page, sleep_time, acquires, requests>>
    /\ UNCHANGED <<historyOnly, cacheVars, configVars, limiterVars>>

\* lines 146-163: a 200 with orders: append them, next page
OrdersPage ==
    /\ op = "orders" /\ pc = "handle"
    /\ ~response.timeout /\ errors_left # 0 /\ response.status = 200
    /\ response.body = "json" /\ response.payload # <<>>
    /\ total_pages' = NewTotalPages
    /\ result' = [result EXCEPT !.total_retries = @ + retries,
                                !.data = @ \o response.payload,
                                !.pages_fetched = @ + 1]
    /\ retries' = 0
    /\ page' = page + 1
    /\ response' = NoResponse
    /\ pc' = "while"
    /\ UNCHANGED <<op, sleep_time, acquires, requests>>
    /\ UNCHANGED <<historyOnly, cacheVars, configVars, limiterVars>>

OrdersNext ==
    \/ OrdersWhileBody \/ OrdersWhileExit \/ OrdersAcquire \/ OrdersGet
    \/ OrdersTimeout \/ OrdersBudgetStop
    \/ OrdersErrorRetry \/ OrdersErrorGiveUp \/ OrdersSleep
    \/ OrdersUndecodable \/ OrdersEmptyPage \/ OrdersPage

\* lines 97-100 of fetch_market_orders, for a client constructed with a
\* max_retries of retry_limits
OrdersStart(retry_limits) ==
    /\ op = "orders" /\ pc = "while"
    /\ use_cache = FALSE
    /\ max_retries \in retry_limits
    /\ entries = EmptyMap
    /\ CacheIdle
    /\ type_ids = <<>>
    /\ items_processed = 0
    /\ page = 1 /\ max_pages = 1 /\ skip_cache = FALSE
    /\ retries = 0
    /\ req_headers = auth_headers
    /\ response = NoResponse
    /\ total_pages = 1
    /\ result = FetchResult
    /\ sleep_time = 0
    /\ acquires = 0 /\ requests = 0
    /\ appended = <<>>
    /\ pages_ok = <<>>
    /\ item_requests = <<>>
    /\ item_errors = <<>>
    /\ outcome = <<>>
    /\ LimiterIdle

OrdersInit == OrdersStart({0, MaxRetries})

(* one fetch call *)
Init == HistoryInit \/ OrdersInit

Next == HistoryNext \/ OrdersNext

Spec == Init /\ [][Next]_vars

(* one fetch call of a client allowed one retry more, for one key at most *)
RetryInit ==
    \/ HistoryStart({MaxRetries + 1}, {l \in TypeIdLists : Len(l) <= 1})
    \/ OrdersStart({MaxRetries + 1})

SpecRetry == RetryInit /\ [][Next]_vars

(* a HistoryCache on its own *)
\* no fetch call is running
FetchIdle ==
    /\ op = "none" /\ pc = "idle"
    /\ use_cache = TRUE /\ max_retries = 0
    /\ type_ids = <<>> /\ items_processed = 0
    /\ page = 1 /\ max_pages = 1 /\ skip_cache = FALSE
    /\ retries = 0
    /\ req_headers = EmptyMap
    /\ response = NoResponse
    /\ total_pages = 1
    /\ result = FetchResult
    /\ sleep_time = 0
    /\ acquires = 0 /\ requests = 0
    /\ appended = <<>> /\ pages_ok = <<>> /\ item_requests = <<>>
    /\ item_errors = <<>> /\ outcome = <<>>

\* HistoryCache.__init__ (lines 45-47) beside some file on disk
CacheInit ==
    /\ entries = EmptyMap
    /\ file \in InitFiles
    /\ tmp_file = MissingFile
    /\ save_pc = "idle"
    /\ cache_exc = ""
    /\ put_keys = {} /\ loaded = FALSE
    /\ FetchIdle
    /\ LimiterIdle

CacheNext ==
    \/ NewInstance \/ CachePut \/ CacheLoad
    \/ SaveMkdir \/ SaveMkstemp \/ SaveWrite \/ SaveReplace \/ SaveCrash

SpecCache == CacheInit /\ [][CacheNext]_vars

(* ---------------------- TokenBucketRateLimiter ------------------------ *)
(* rate_limiter.py.  The token count is a float; the model counts tokens   *)
(* in units of 1/TokenUnit and time in ticks, tokens_per_second being the  *)
(* units refilled per tick.  A step is the code an asyncio task runs       *)
(* between two suspension points.                                          *)
Callers == 1..NumCallers

\* the configurations __init__ (lines 20-25) is given: a size and a rate,
\* neither negative; rate 3 refills more than a token per tick
BurstSizes == 0..MaxBurst
Rates == {0, 1, 3}

Min(a, b) == IF a <= b THEN a ELSE b

\* as _refill, without the cap at _burst_size
refill_NoCap == [tokens |-> tokens + (now - last_refill) * tokens_per_second,
                 last_refill |-> now]

\* as _refill, keeping the old _last_refill
refill_KeepInstant ==
    [tokens |-> Min(burst_size * TokenUnit,
                    tokens + (now - last_refill) * tokens_per_second),
     last_refill |-> last_refill]

\* _refill (lines 37-45): the bucket after it ran at time now
refill == [tokens |-> Min(burst_size * TokenUnit,
                          tokens + (now - last_refill) * tokens_per_second),
           last_refill |-> now]

\* as lock_free, every caller enters at once
lock_free_Always == TRUE

\* line 29, asyncio.Lock.acquire: a caller takes the lock without waiting
\* when it is not held and no earlier caller is queued for it
lock_free == ~locked /\ waiters = <<>>

\* as RefillAndTake, the lock being released for the time of the sleep
RefillAndTake_SleepUnlocked(c) ==
    LET b == refill IN
    /\ last_refill' = b.last_refill
    /\ IF b.tokens >= TokenUnit
       THEN /\ tokens' = b.tokens - TokenUnit
            /\ locked' = FALSE
            /\ completed' = completed + 1
            /\ caller_pc' = [caller_pc EXCEPT ![c] = "idle"]
       ELSE IF tokens_per_second = 0
       THEN /\ tokens' = b.tokens
            /\ locked' = FALSE
            /\ completed' = completed
            /\ caller_pc' = [caller_pc EXCEPT ![c] = "raised"]
       ELSE /\ tokens' = b.tokens
            /\ locked' = FALSE
            /\ completed' = completed
            /\ caller_pc' = [caller_pc EXCEPT ![c] = "sleeping"]

\* lines 30-35 from a _refill on, by the caller holding the lock, up to its
\* next suspension: either a token is there, it is spent and the lock is
\* released (line 35); or the wait of line 32 divides by a zero rate,
\* ZeroDivisionError leaves acquire() and the lock is released; or the
\* caller sleeps (line 33) holding the lock
RefillAndTake(c) ==
    LET b == refill IN
    /\ last_refill' = b.last_refill
    /\ IF b.tokens >= TokenUnit
       THEN /\ tokens' = b.tokens - TokenUnit
            /\ locked' = FALSE
            /\ completed' = completed + 1
            /\ caller_pc' = [caller_pc EXCEPT ![c] = "idle"]
       ELSE IF tokens_per_second = 0
       THEN /\ tokens' = b.tokens
            /\ locked' = FALSE
            /\ completed' = completed
            /\ caller_pc' = [caller_pc EXCEPT ![c] = "raised"]
       ELSE /\ tokens' = b.tokens
            /\ locked' = TRUE
            /\ completed' = completed
            /\ caller_pc' = [caller_pc EXCEPT ![c] = "sleeping"]

\* acquire() called with the lock free: lines 29-35 up to the first
\* suspension
AcquireEnter(c) ==
    /\ caller_pc[c] \in {"idle", "raised"}
    /\ started < MaxAcquires
    /\ lock_free
    /\ started' = started + 1
    /\ RefillAndTake(c)
    /\ UNCHANGED <<burst_size, tokens_per_second, waiters, now>>
    /\ UNCHANGED <<cacheVars, configVars, fetchVars>>

\* acquire() called with the lock held or promised: line 29 suspends the
\* caller at the end of the lock's queue
AcquireQueue(c) ==
    /\ caller_pc[c] \in {"idle", "raised"}
    /\ started < MaxAcquires
    /\ ~lock_free
    /\ started' = started + 1
    /\ waiters' = Append(waiters, c)
    /\ caller_pc' = [caller_pc EXCEPT ![c] = "waiting"]
    /\ UNCHANGED <<burst_size, tokens_per_second, tokens, last_refill, locked, now,
                   completed>>
    /\ UNCHANGED <<cacheVars, configVars, fetchVars>>

\* line 29 resumes: the released lock goes to the first caller of its
\* queue, which runs lines 30-35 up to its next suspension
LockGranted(c) ==
    /\ caller_pc[c] = "waiting"
    /\ ~locked
    /\ waiters # <<>> /\ Head(waiters) = c
    /\ waiters' = Tail(waiters)
    /\ RefillAndTake(c)
    /\ UNCHANGED <<burst_size, tokens_per_second, now, started>>
    /\ UNCHANGED <<cacheVars, configVars, fetchVars>>

\* line 32: the wait computed from the bucket the caller fell asleep on; the
\* event loop ends a sleep within its clock resolution of the deadline, so
\* the sleep is over once the whole ticks of the wait are
wait == (TokenUnit - tokens) \div tokens_per_second

\* line 33 resumes, lines 34 and 31-35 up to the next suspension
SleepWake(c) ==
    /\ caller_pc[c] = "sleeping"
    /\ now - last_refill >= wait
    /\ RefillAndTake(c)
    /\ UNCHANGED <<burst_size, tokens_per_second, waiters, now, started>>
    /\ UNCHANGED <<cacheVars, configVars, fetchVars>>

\* time.monotonic() advances
Tick ==
    /\ now < MaxTime
    /\ now' = now + 1
    /\ UNCHANGED <<burst_size, tokens_per_second, tokens, last_refill, locked, waiters,
                   caller_pc, started, completed>>
    /\ UNCHANGED <<cacheVars, configVars, fetchVars>>

\* __init__ (lines 20-25) at time 0, no acquire() begun
LimiterInit ==
    /\ burst_size \in BurstSizes
    /\ tokens_per_second \in Rates
    /\ tokens = burst_size * TokenUnit
    /\ last_refill = 0 /\ now = 0
    /\ locked = FALSE /\ waiters = <<>>
    /\ caller_pc = [c \in Callers |-> "idle"]
    /\ started = 0 /\ completed = 0
    /\ FetchIdle
    /\ entries = EmptyMap
    /\ CacheIdle

LimiterNext ==
    \/ \E c \in Callers : AcquireEnter(c)
    \/ \E c \in Callers : AcquireQueue(c)
    \/ \E c \in Callers : LockGranted(c)
    \/ \E c \in Callers : SleepWake(c)
    \/ Tick

SpecLimiter == LimiterInit /\ [][LimiterNext]_vars

(* ============================== claims ================================ *)
\* C1: for every key with no cache entry, and for every key whose entry has
\* an empty record list, whatever its etag and last_modified,
\* get_conditional_headers returns the empty mapping; in every state a
\* sequence of put, load and save operations reaches.
C1_SafetyValve ==
    \A k \in Keys :
        (k \notin DOMAIN entries \/ entries[k].data = <<>>) =>
            get_conditional_headers(k) = EmptyMap

\* C1 witness: load() read an entry with both validators and no records for
\* one key, and put stored validators with an empty record list for another
C1_Witness ==
    /\ DOMAIN entries = Keys
    /\ entries[34] = CacheEntry("e0", "m0", <<>>)
    /\ entries[35] = CacheEntry("e1", "m1", <<>>)

\* the reply being handled is a 304 for a history request with a cache
Got304 ==
    /\ op = "history" /\ pc = "handle" /\ use_cache
    /\ ~response.timeout /\ response.status = 304

\* the cache holds records for the key being fetched
ItemHasRecords == item \in DOMAIN entries /\ entries[item].data # <<>>

\* C2: every step that increments cache_hits handles a 304, with a cache
\* configured, while the cache entry of the current key has a non-empty
\* record list, increments it by one, and appends exactly that entry's
\* records to data: a 304 against an empty record list is never a cache hit.
C2_HitOnlyWithRecords ==
    [][result'.cache_hits # result.cache_hits =>
        /\ Got304
        /\ ItemHasRecords
        /\ result'.cache_hits = result.cache_hits + 1
        /\ result'.data = result.data \o entries[item].data]_vars

\* C2 witness: a cache hit has been counted and its records are in data
C2_Witness ==
    /\ op = "history" /\ result.cache_hits = 1 /\ Len(result.data) > 0
    /\ result.pages_fetched = 1

\* C3: when a 304 arrives for a key whose cache entry has records, the
\* cached records are appended to data, cache_hits grows by exactly one,
\* error_count, failed_items, the retry counter and the cache are unchanged,
\* the while loop of the key is left, and no request is issued any more for
\* this occurrence of the key in the list.
C3_HitAdoptsCache ==
    /\ [][(Got304 /\ ItemHasRecords) =>
            /\ result'.data = result.data \o entries[item].data
            /\ result'.cache_hits = result.cache_hits + 1
            /\ result'.error_count = result.error_count
            /\ result'.failed_items = result.failed_items
            /\ retries' = retries
            /\ entries' = entries
            /\ pc' = "after_while"
            /\ outcome'[items_processed] = "hit"]_vars
    /\ [][\A i \in DOMAIN outcome :
            outcome[i] = "hit" =>
                outcome'[i] = "hit" /\ item_requests'[i] = item_requests[i]]_vars

\* C3 witness: the first key was answered from the cache by its only
\* request, and the call went on to request the next key
C3_Witness ==
    /\ op = "history" /\ Len(type_ids) = 2
    /\ outcome[1] = "hit" /\ item_requests[1] = 1
    /\ item_requests[2] >= 1 /\ result.cache_hits = 1 /\ result.error_count = 0

\* a 200 whose body decoded to a non-empty list, with a cache configured
Got200Records ==
    /\ op = "history" /\ pc = "handle" /\ use_cache
    /\ ~response.timeout /\ response.status = 200
    /\ response.body = "json" /\ response.payload # <<>>

\* the records a step appended to data
NewRecords == SubSeq(result'.data, Len(result.data) + 1, Len(result'.data))

\* rec is the record raw with its type_id set to k
IsStamped(rec, raw, k) ==
    /\ DOMAIN rec = (DOMAIN raw) \cup {"type_id"}
    /\ rec.type_id = k
    /\ \A f \in (DOMAIN raw) \ {"type_id"} : rec[f] = raw[f]

\* C4: a 200 with a decodable non-empty payload for key k, with a cache:
\* every record of the payload is appended to data, in order, with type_id
\* set to k; cache_hits is unchanged; the cache entry of k becomes (ETag
\* header or "", Last-Modified header or "", the same stamped records) and
\* no other entry changes.
C4_SuccessStampsAndStores ==
    [][Got200Records =>
        /\ Len(result'.data) = Len(result.data) + Len(response.payload)
        /\ SubSeq(result'.data, 1, Len(result.data)) = result.data
        /\ \A j \in DOMAIN response.payload :
              IsStamped(NewRecords[j], response.payload[j], item)
        /\ result'.cache_hits = result.cache_hits
        /\ DOMAIN entries' = (DOMAIN entries) \cup {item}
        /\ entries'[item].etag = GetOr(response.headers, "ETag", "")
        /\ entries'[item].last_modified = GetOr(response.headers, "Last-Modified", "")
        /\ entries'[item].data = NewRecords
        /\ \A k \in (DOMAIN entries) \ {item} : entries'[k] = entries[k]]_vars

\* C4 witness: a 200 carrying both validators and two records, one of them
\* naming another type_id, was stored for key 34 and appended
C4_Witness ==
    /\ op = "history" /\ use_cache /\ pc = "while" /\ items_processed = 1
    /\ pages_ok[1] = 1 /\ appended[1] = 2 /\ result.cache_hits = 0
    /\ 34 \in DOMAIN entries /\ entries[34].etag = "e1"
    /\ entries[34].last_modified = "m1" /\ Len(entries[34].data) = 2

ConditionalNames == {"If-None-Match", "If-Modified-Since"}

\* C5: a 304 for a key whose cache entry has no records changes nothing of
\* the result (neither cache_hits nor error_count), consumes no retry and
\* sets skip_cache; from then on, while this occurrence of the key is being
\* fetched, skip_cache stays set and no request carries If-None-Match or
\* If-Modified-Since; and a following 200 whose body decodes is accepted as
\* an ordinary success (records appended, page advanced, no hit, no error).
C5_DegradedRetriesFresh ==
    /\ [][(Got304 /\ ~ItemHasRecords) =>
            /\ result' = result
            /\ retries' = retries
            /\ skip_cache'
            /\ items_processed' = items_processed
            /\ pc' = "while"]_vars
    /\ [][(skip_cache /\ items_processed' = items_processed) => skip_cache']_vars
    /\ [](skip_cache /\ pc \in {"acquire", "get", "handle"} =>
            (DOMAIN req_headers) \cap ConditionalNames = {})
    /\ [][(skip_cache /\ pc = "handle" /\ ~response.timeout /\ response.status = 200
            /\ response.body = "json") =>
            /\ Len(result'.data) = Len(result.data) + Len(response.payload)
            /\ result'.pages_fetched = result.pages_fetched + 1
            /\ result'.cache_hits = result.cache_hits
            /\ result'.error_count = result.error_count
            /\ result'.failed_items = result.failed_items
            /\ page' = page + 1
            /\ pc' = "while"]_vars

\* C5 witness: after a 304 against an entry without records, a 200 with
\* validators and records was accepted and a further page of the same key
\* is being requested, with no hit and no error counted
C5_Witness ==
    /\ op = "history" /\ use_cache /\ skip_cache /\ pc = "handle"
    /\ items_processed = 1 /\ item_requests[1] = 3 /\ pages_ok[1] = 1
    /\ appended[1] = 2 /\ entries[34].etag = "e1"
    /\ result.cache_hits = 0 /\ result.error_count = 0

\* the processing of position i of type_ids has ended
Finished(i) ==
    \/ i < items_processed
    \/ i = items_processed /\ pc \in {"after_while", "for", "done"}

\* every request made so far for position i has been answered by a plain
\* error (a status other than 200 and 304, budget absent or at least 2)
OnlyPlainErrors(i) ==
    /\ item_requests[i] > 0
    /\ item_errors[i] = item_requests[i]
    /\ ~(i = items_processed /\ pc = "handle")

\* C6: if every reply for a key is a status other than 200 and 304 with the
\* error budget absent or at least 2, at most max_retries + 1 requests are
\* made for it; when its processing ends exactly max_retries + 1 were made,
\* the key is in failed_items, no record was appended for this occurrence,
\* error_count counts each of those replies, and the call goes on with the
\* for loop (it is not aborted).
C6_ExhaustedKeyFails ==
    /\ [](op = "history" =>
            /\ \A i \in DOMAIN type_ids :
                  OnlyPlainErrors(i) =>
                      /\ item_requests[i] <= max_retries + 1
                      /\ Finished(i) =>
                            /\ item_requests[i] = max_retries + 1
                            /\ outcome[i] = "failed"
                            /\ type_ids[i] \in Range(result.failed_items)
                            /\ appended[i] = 0
            /\ result.error_count >=
                  (max_retries + 1)
                  * Cardinality({i \in DOMAIN type_ids : OnlyPlainErrors(i) /\ Finished(i)}))
    /\ [][(op = "history" /\ pc = "handle" /\ item_errors[items_processed] = item_requests[items_processed]) =>
            pc' \in {"sleep", "after_while"}]_vars
    /\ [][pc = "after_while" => pc' = "for"]_vars
    /\ [][(op = "history" /\ pc = "for" /\ items_processed < Len(type_ids)) =>
            (pc' = "while" /\ items_processed' = items_processed + 1)]_vars

\* C6 witness: with max_retries = MaxRetries the first key got only plain
\* errors and failed after max_retries + 1 requests, and the second key is
\* being requested
C6_Witness ==
    /\ op = "history" /\ max_retries = MaxRetries /\ Len(type_ids) = 2
    /\ OnlyPlainErrors(1) /\ outcome[1] = "failed"
    /\ item_requests[1] = MaxRetries + 1 /\ result.error_count = MaxRetries + 1
    /\ items_processed = 2 /\ item_requests[2] >= 1

\* the positions of type_ids that were given up, in order
RECURSIVE FailedKeys(_)
FailedKeys(n) ==
    IF n = 0 THEN <<>>
    ELSE IF outcome[n] = "failed" THEN Append(FailedKeys(n - 1), type_ids[n])
    ELSE FailedKeys(n - 1)

\* C7 as stated: when the call returns, a key of the input list is in
\* failed_items if and only if no record was appended for it.
C7_Original ==
    (op = "history" /\ pc = "done") =>
        \A k \in Range(type_ids) :
            (k \in Range(result.failed_items))
            <=> (\A i \in DOMAIN type_ids : type_ids[i] = k => appended[i] = 0)

\* C7 amended: when the call returns, failed_items lists, in order, the
\* occurrences of keys that were given up with the retry budget exhausted;
\* an occurrence for which no 200 reply was accepted was given up if and
\* only if no record was appended for it.  (A key answered 200 with an empty
\* list has no record and is not in failed_items; a key that fails on a
\* later page has records and is in failed_items.)
C7_FailedItemsAtReturn ==
    (op = "history" /\ pc = "done") =>
        /\ result.failed_items = FailedKeys(Len(type_ids))
        /\ \A i \in DOMAIN type_ids :
              pages_ok[i] = 0 => (outcome[i] = "failed" <=> appended[i] = 0)

\* C7 witness: the call returned after one key was given up and another was
\* answered from the cache
C7_Witness ==
    /\ op = "history" /\ pc = "done" /\ Len(type_ids) = 2
    /\ \E i, j \in DOMAIN type_ids :
         /\ outcome[i] = "failed" /\ appended[i] = 0 /\ pages_ok[i] = 0
         /\ outcome[j] = "hit" /\ appended[j] > 0
    /\ Len(result.failed_items) = 1

\* C8: in both fetch operations every request is preceded by one completed
\* acquire() of its own: the completed acquires are one more than the
\* requests exactly between an acquire and the request it was made for, and
\* equal otherwise, in particular when the call has returned; a step issues
\* at most one request and no step both acquires and requests.
C8_OneAcquirePerRequest ==
    /\ [](IF pc = "get" THEN acquires = requests + 1 ELSE acquires = requests)
    /\ [][requests' # requests =>
            (requests' = requests + 1 /\ acquires' = acquires /\ pc = "get")]_vars
    /\ [][acquires' # acquires =>
            (acquires' = acquires + 1 /\ requests' = requests /\ pc = "acquire")]_vars

\* C8 witness: a history call has issued a first attempt, a backoff retry
\* and the retry after a 304 without cached records, and holds the token
\* for the next request
C8_Witness ==
    /\ op = "history" /\ pc = "get" /\ skip_cache
    /\ retries = 1 /\ requests = 2 /\ acquires = 3

\* C9: in every state a TokenBucketRateLimiter reaches, whatever the
\* interleaving of its callers and the passage of time, the token count is
\* at least 0 and at most burst_size.
C9_TokensBounded == 0 <= tokens /\ tokens <= burst_size * TokenUnit

\* C9 witness: the first acquire() came after time had passed, its refill
\* was cut at burst_size and its decrement left burst_size - 1 tokens
C9_Witness ==
    /\ burst_size >= 1 /\ tokens_per_second > 0
    /\ completed = 1 /\ started = 1 /\ last_refill > 0
    /\ tokens = (burst_size - 1) * TokenUnit

\* the callers inside the critical section of acquire()
Inside == {c \in DOMAIN caller_pc : caller_pc[c] = "sleeping"}

\* C10: with concurrent callers no token is spent twice.  A step completes
\* at most one acquire(), and it does so by taking exactly one token from a
\* refilled bucket that holds at least one; at most one caller is inside
\* the critical section and the lock is held exactly then; while a caller is
\* inside, a step that changes the bucket moves no other caller; and the
\* acquires completed by time now never exceed
\* burst_size + tokens_per_second * now.
C10_NoDoubleSpend ==
    /\ [](Cardinality(Inside) <= 1 /\ (locked <=> Inside # {}))
    /\ [](completed * TokenUnit <= burst_size * TokenUnit + tokens_per_second * now)
    /\ [][completed' # completed =>
            LET filled == Min(burst_size * TokenUnit,
                              tokens + (now - last_refill) * tokens_per_second)
            IN /\ completed' = completed + 1
               /\ filled >= TokenUnit
               /\ tokens' = filled - TokenUnit]_vars
    /\ [][\A c \in Inside :
            <<tokens, last_refill>>' # <<tokens, last_refill>> =>
                \A d \in DOMAIN caller_pc \ {c} : caller_pc'[d] = caller_pc[d]]_vars

\* C10 witness: more acquires have completed than the burst allows, so a
\* caller waited for a refill and spent it, and now one caller sleeps inside
\* the critical section while another is queued for the lock
C10_Witness ==
    /\ burst_size >= 1 /\ completed > burst_size
    /\ \E c, d \in DOMAIN caller_pc :
         caller_pc[c] = "sleeping" /\ caller_pc[d] = "waiting"

\* C11: acquire() never fails and no caller waits forever, for every
\* configuration the constructor accepts: no acquire() ends in an exception,
\* and a caller asleep inside acquire() sleeps on a bucket that time can fill
\* to a whole token (a positive rate, and room for a token under the cap).
C11_NeverFailsNorWaitsForever ==
    \A c \in DOMAIN caller_pc :
        /\ caller_pc[c] # "raised"
        /\ caller_pc[c] = "sleeping" =>
              (tokens_per_second > 0 /\ burst_size * TokenUnit >= TokenUnit)

\* C12: on a limiter with burst_size B, each of the first B acquire() calls
\* completes in the step that makes it, without waiting; and once more than
\* B acquires have completed, at least the time that refills one token
\* (TokenUnit / tokens_per_second ticks) has passed since construction.  With
\* B = 2 and a rate of one token per TokenUnit ticks the third call is
\* delayed by at least TokenUnit ticks.
C12_BurstThenDelay ==
    /\ [][(started' = started + 1 /\ started < burst_size) =>
            completed' = completed + 1]_vars
    /\ [](completed > burst_size => tokens_per_second * now >= TokenUnit)

\* C12 witness: B = 2 at the rate of one token per TokenUnit ticks; the
\* third acquire() has completed exactly when one token had been refilled
C12_Witness ==
    /\ burst_size = 2 /\ tokens_per_second = 1
    /\ completed = 3 /\ started = 3
    /\ now = TokenUnit /\ last_refill = now /\ tokens = 0

\* the keys whose cache entry has records
KeysWithRecords == {k \in DOMAIN entries : entries[k].data # <<>>}

\* C13 as stated: for every key whose entry has a non-empty record list,
\* get_conditional_headers returns a non-empty mapping containing at least
\* one of If-None-Match and If-Modified-Since.
C13_Original ==
    \A k \in KeysWithRecords :
        /\ get_conditional_headers(k) # EmptyMap
        /\ DOMAIN get_conditional_headers(k) \cap ConditionalNames # {}

\* C13 amended: for every key whose entry has a non-empty record list,
\* get_conditional_headers returns a non-empty mapping containing at least
\* one of If-None-Match and If-Modified-Since when the entry holds a
\* non-empty etag or a non-empty last_modified, and the empty mapping when
\* both are empty.
C13_ValidatorsWhenStored ==
    \A k \in KeysWithRecords :
        IF entries[k].etag # "" \/ entries[k].last_modified # ""
        THEN /\ get_conditional_headers(k) # EmptyMap
             /\ DOMAIN get_conditional_headers(k) \cap ConditionalNames # {}
        ELSE get_conditional_headers(k) = EmptyMap

\* C13 witness: put stored records with a last_modified and no etag for one
\* key, and records with no validator at all for the other
C13_Witness ==
    /\ DOMAIN entries = Keys
    /\ entries[34] = CacheEntry("", "m1", <<[date |-> "d1", type_id |-> 34]>>)
    /\ entries[35] = CacheEntry("", "", <<[date |-> "d1", type_id |-> 35]>>)

\* C14: for an entry with records, get_conditional_headers returns a mapping
\* whose keys are among If-None-Match and If-Modified-Since; If-None-Match
\* is there exactly when the stored etag is non-empty, and then equals it;
\* If-Modified-Since is there exactly when the stored last_modified is
\* non-empty, and then equals it.
C14_ExactValidators ==
    \A k \in KeysWithRecords :
        LET h == get_conditional_headers(k) IN
        /\ DOMAIN h \subseteq {"If-None-Match", "If-Modified-Since"}
        /\ ("If-None-Match" \in DOMAIN h) <=> (entries[k].etag # "")
        /\ ("If-None-Match" \in DOMAIN h) => h["If-None-Match"] = entries[k].etag
        /\ ("If-Modified-Since" \in DOMAIN h) <=> (entries[k].last_modified # "")
        /\ ("If-Modified-Since" \in DOMAIN h) =>
              h["If-Modified-Since"] = entries[k].last_modified

\* C14 witness: one entry with records and an etag only, stored by put, and
\* one with records and both validators, read by load()
C14_Witness ==
    /\ DOMAIN entries = Keys
    /\ entries[34] = CacheEntry("e1", "", <<[date |-> "d1", type_id |-> 34]>>)
    /\ entries[35] = CacheEntry("e0", "m0", <<[date |-> "d0"]>>)

\* C15: round trip.  Whenever save() has renamed its temporary file over
\* the destination, load() into a new cache instance on that path returns
\* without raising and yields exactly the entries of the saving instance:
\* the same keys, each with identical etag, last_modified and records, and
\* no other entry.
C15_RoundTrip ==
    [][(save_pc = "replace" /\ save_pc' = "idle" /\ file' = tmp_file) =>
         LoadResult(file', EmptyMap) = [entries |-> entries', exc |-> ""]]_vars

\* C15 witness: a new instance on which nothing was put holds, after its
\* load(), the two entries an earlier instance had put and saved
C15_Witness ==
    /\ loaded /\ put_keys = {} /\ cache_exc = ""
    /\ DOMAIN entries = Keys
    /\ entries[34] = CacheEntry("e1", "m1", <<[date |-> "d1", type_id |-> 34]>>)
    /\ entries[35] = CacheEntry("e1", "", <<>>)

\* the step stays on the same cache instance: it does not end on an instance
\* just constructed
SameInstance == loaded' \/ put_keys' # {}

\* what entry_count is after put(k, ...), for every key and every argument
PutCounts ==
    \A k \in Keys, etag \in PutEtags, lm \in PutLastModified :
        \A data \in PutData(k) :
            Cardinality(DOMAIN put(k, etag, lm, data)) =
                entry_count + (IF k \in DOMAIN entries THEN 0 ELSE 1)

\* C16 as stated: entry_count always equals the number of distinct keys ever
\* put on the cache instance; a put on a key already present leaves it
\* unchanged; and no operation of the cache lowers it.
C16_Original ==
    /\ [](entry_count = Cardinality(put_keys))
    /\ [](PutCounts)
    /\ [][SameInstance => entry_count' >= entry_count]_vars

\* C16 amended: on an instance on which load() was never called entry_count
\* equals the number of distinct keys ever put; a put on a key already
\* present leaves it unchanged and a put on an absent key adds one; and the
\* only operation that lowers entry_count is a load() that resets the
\* cache, after which it is 0 whatever was put before.
C16_CountsKeysHeld ==
    /\ [](~loaded => entry_count = Cardinality(put_keys))
    /\ [](PutCounts)
    /\ [][(SameInstance /\ entry_count' < entry_count) =>
            (loaded' /\ entry_count' = 0 /\ put_keys' = put_keys
             /\ LoadResult(file, entries).entries = EmptyMap)]_vars

\* C16 witness: after two keys were put, load() of a file that is not JSON
\* has emptied the instance
C16_Witness ==
    /\ put_keys = Keys /\ loaded /\ file = InvalidFile
    /\ entry_count = 0

\* the step is the first load() of a cache instance on which nothing was put
FreshLoad == ~loaded /\ loaded' /\ put_keys = {}

\* C17: load() on a fresh cache instance returns without raising and
\* leaves the cache empty (entry_count 0) when the file is missing and when
\* its content is not valid JSON.
C17_MissingOrInvalidLoadsEmpty ==
    [][(FreshLoad /\ file.kind \in {"missing", "invalid"}) =>
         (cache_exc' = "" /\ entries' = EmptyMap /\ entry_count' = 0)]_vars

\* C17 witness: a fresh instance after load() of a file that is not JSON
C17_Witness ==
    /\ loaded /\ put_keys = {} /\ file = InvalidFile
    /\ cache_exc = "" /\ entry_count = 0

\* the keys of a JSON object whose value is an object
DictKeys(items) == {s \in DOMAIN items : items[s].isdict}

\* C18: load() does not raise on a file that is valid JSON of the wrong
\* structure.  A top-level value that is no object, and an object with a
\* key that is no integer string (over an object value), leave the cache
\* empty; otherwise the values that are no objects are skipped and every
\* other entry of the file is kept.
C18_WrongStructureTolerated ==
    [][(FreshLoad /\ file.kind = "json") =>
         /\ cache_exc' = ""
         /\ IF file.top # "object" THEN entries' = EmptyMap
            ELSE IF \E s \in DictKeys(file.items) : ~IsIntString(s)
                 THEN entries' = EmptyMap
                 ELSE /\ DOMAIN entries' = {int_key(s) : s \in DictKeys(file.items)}
                      /\ \A k \in DOMAIN entries' :
                            entries'[k] = EntryOfValue(file.items[str_key(k)])]_vars

\* C19: save() is atomic for the destination file.  The destination changes
\* in one step only, the rename, and then it holds the complete new
\* snapshot, which the temporary file held before; at every other step of
\* save(), a failing step and a crash of the process included, the
\* destination keeps the previous snapshot.
C19_AtomicSave ==
    /\ [][file' # file =>
            (save_pc = "replace" /\ file' = tmp_file /\ file' = Serialize(entries))]_vars
    /\ [](save_pc = "replace" => tmp_file = Serialize(entries))

\* C19 witness: the process died after mkstemp, before the write was
\* complete; the destination still holds the entry an earlier run saved,
\* not the entries held now
C19_Witness ==
    /\ save_pc = "crashed" /\ tmp_file = InvalidFile
    /\ put_keys = Keys
    /\ file = ObjectFile([s \in {"35"} |-> FullValue])

\* C20: save() never raises to its caller, whichever of its steps fails,
\* and leaves the in-memory entries unchanged.
C20_SaveNeverRaises ==
    /\ [](cache_exc # "OSError")
    /\ [][(save_pc \in {"mkstemp", "write", "replace"} \/ save_pc' = "mkstemp") =>
            entries' = entries]_vars

\* C21: put(k, e, m, d) is an unconditional upsert that changes key k only.
\* After every step that does to the entries what put(k, e, m, d) does,
\* get(k) is the entry (e, m, d) whatever was stored before, has_data(k) is
\* true exactly when d is non-empty, and get of every other key is what it
\* was; and in every state, for a key with no entry, get is None and
\* has_data is false.
C21_PutUpsertsOneKey ==
    /\ [][\A k \in Keys, e \in PutEtags, m \in PutLastModified :
            \A d \in PutData(k) :
                entries' = put(k, e, m, d) =>
                    /\ get(k)' = CacheEntry(e, m, d)
                    /\ has_data(k)' = (d # <<>>)
                    /\ \A j \in Keys \ {k} : get(j)' = get(j)]_vars
    /\ [](\A k \in Keys \ DOMAIN entries : get(k) = None /\ ~has_data(k))

\* C21 witness: load() read a whole entry for both keys, then put replaced
\* the entry of 34 by one without records and left that of 35 alone
C21_Witness ==
    /\ loaded /\ put_keys = {34}
    /\ file = ObjectFile([s \in {"34", "35"} |-> FullValue])
    /\ DOMAIN entries = Keys
    /\ get(34) = CacheEntry("e1", "m1", <<>>) /\ ~has_data(34)
    /\ get(35) = CacheEntry("e0", "m0", <<[date |-> "d0"]>>) /\ has_data(35)

\* C22: no exception leaves fetch_market_history, whatever sequence of 200
\* with a decodable body, 200 with an undecodable body, 304, error status and
\* timeout the server produces: the call never ends by raising.
C22_NoExceptionEscapes == op = "history" => pc # "raised"

\* C23: in fetch_market_orders, handling a 200 response whose body cannot be
\* decoded (the error budget not being exhausted) raises error_count by one,
\* leaves the retry counter as it was, and moves on to the next page: the
\* next request is for page + 1.
C23_UndecodableSkipsPage ==
    [][(/\ op = "orders" /\ pc = "handle"
        /\ ~response.timeout /\ response.status = 200 /\ response.body = "bad"
        /\ errors_left # 0)
       => /\ result'.error_count = result.error_count + 1
          /\ retries' = retries
          /\ page' = page + 1]_vars

\* the reply being handled reports a remaining error budget of n
ReportsRemain(n) ==
    /\ ~response.timeout
    /\ "X-ESI-Error-Limit-Remain" \in DOMAIN response.headers
    /\ response.headers["X-ESI-Error-Limit-Remain"] = n

\* C24: in fetch_market_orders, handling a reply that reports a remaining
\* error budget of 0 ends the call with the result as accumulated, whatever
\* the status and the retries left, error_count and the retry counter
\* untouched (the budget is tested first), and no request follows the
\* return; a reply reporting 1 to 9 is handled as its status says: a page
\* with orders is appended and the next page is fetched, an error status with
\* retries left is retried, and the call ends only on an error status with no
\* retry left or on an empty page.
C24_BudgetStopsFirst ==
    /\ [][(op = "orders" /\ pc = "handle" /\ ReportsRemain(0))
          => /\ pc' = "done"
             /\ result' = result /\ retries' = retries /\ requests' = requests]_vars
    /\ [][(op = "orders" /\ pc = "done") => (pc' = "done" /\ requests' = requests)]_vars
    /\ [][(op = "orders" /\ pc = "handle" /\ \E n \in 1..9 : ReportsRemain(n))
          => /\ (response.status = 200 /\ response.body = "json"
                    /\ response.payload # <<>>)
                => /\ pc' = "while" /\ page' = page + 1
                   /\ result'.data = result.data \o response.payload
             /\ (response.status # 200 /\ retries < max_retries)
                => /\ pc' = "sleep"
                   /\ result'.error_count = result.error_count + 1
             /\ pc' = "done"
                => \/ response.status # 200 /\ retries >= max_retries
                   \/ response.status = 200 /\ response.body = "json"
                        /\ response.payload = <<>>]_vars

\* C24 witness: the second request, made after a page was fetched, was
\* answered 500 with a reported budget of 0 while a retry was left, and the
\* call ended there: no error counted, no retry made, the page kept
C24_Witness ==
    /\ op = "orders" /\ pc = "done"
    /\ ReportsRemain(0) /\ response.status = 500
    /\ requests = 2 /\ page = 2 /\ total_pages = MaxPages
    /\ result.pages_fetched = 1 /\ result.data # <<>>
    /\ result.error_count = 0 /\ retries = 0 /\ max_retries = MaxRetries

\* the number of records appended for the positions 1..n
RECURSIVE AppendedUpTo(_)
AppendedUpTo(n) == IF n = 0 THEN 0 ELSE AppendedUpTo(n - 1) + appended[n]

\* s is a prefix of t
IsPrefix(s, t) == Len(s) <= Len(t) /\ SubSeq(t, 1, Len(s)) = s

\* C25: fetch_market_history takes the keys one after the other in the
\* order of type_ids.  A request is issued only for the current position,
\* which has not finished, and only when the reply to the previous request
\* has been handled (one request in flight at most); a position that has
\* finished gets no further request and no position is skipped.  data only
\* grows at its end, by records of the current position whose page number
\* never decreases, so data is the records of position 1, then those of
\* position 2, and so on, each carrying the type_id of its position.
C25_SequentialInOrder ==
    /\ [](op = "history" =>
            /\ \A i \in 1..Len(type_ids) :
                 item_requests[i] + appended[i] > 0 => i <= items_processed
            /\ Len(result.data) = AppendedUpTo(Len(type_ids))
            /\ \A i \in 1..Len(type_ids) :
                 \A j \in (AppendedUpTo(i - 1) + 1)..AppendedUpTo(i) :
                    result.data[j].type_id = type_ids[i])
    /\ [][op = "history" =>
            /\ items_processed' \in {items_processed, items_processed + 1}
            /\ items_processed' = items_processed => page' >= page
            /\ requests' # requests =>
                 /\ requests' = requests + 1
                 /\ response = NoResponse /\ pc = "get" /\ pc' = "handle"
            /\ \A i \in 1..Len(type_ids) :
                 /\ item_requests'[i] # item_requests[i] =>
                      /\ i = items_processed /\ ~Finished(i)
                      /\ requests' = requests + 1
                 /\ appended'[i] # appended[i] =>
                      /\ i = items_processed /\ ~Finished(i)
                      /\ Len(result'.data) - Len(result.data) = appended'[i] - appended[i]
            /\ IsPrefix(result.data, result'.data)]_vars

\* C25 witness: two pages of key 34 and then one page of key 35 were
\* fetched, two records each: data holds four records of 34 followed by two
\* of 35
C25_Witness ==
    /\ op = "history" /\ pc = "done" /\ type_ids = <<34, 35>>
    /\ item_requests = <<2, 1>> /\ pages_ok = <<2, 1>> /\ appended = <<4, 2>>
    /\ Len(result.data) = 6
    /\ \A j \in 1..4 : result.data[j].type_id = 34
    /\ \A j \in 5..6 : result.data[j].type_id = 35

\* C26: when the client was constructed with history_cache=None, the
\* headers of every request of fetch_market_history hold neither
\* If-None-Match nor If-Modified-Since, and cache_hits is 0 (no key ends as
\* a cache hit) in every state of the call, whatever the server answers.
C26_NoCacheNoConditional ==
    (op = "history" /\ ~use_cache) =>
        /\ DOMAIN req_headers \cap ConditionalNames = {}
        /\ result.cache_hits = 0
        /\ \A i \in 1..Len(type_ids) : outcome[i] # "hit"

\* C26 witness: without a cache, the second request of the call, sent after
\* a page was fetched, is answered 304
C26_Witness ==
    /\ op = "history" /\ ~use_cache /\ pc = "handle"
    /\ requests = 2 /\ result.pages_fetched = 1
    /\ ~response.timeout /\ response.status = 304
    /\ req_headers = public_headers /\ result.cache_hits = 0

\* C27: a step of fetch_market_history that changes the cache is the
\* handling of a 200 reply whose body decoded, with a cache configured, and
\* it replaces the whole entry of the key being fetched by the validators
\* and the stamped records of that reply; every other step (304, error
\* status, timeout, undecodable body, give-up) leaves the entries as they
\* were.  No key is ever removed and the entry of no other key changes.
C27_CacheOnlyPutOn200 ==
    [][(op = "history" /\ entries' # entries) =>
         /\ pc = "handle" /\ use_cache
         /\ ~response.timeout /\ response.status = 200 /\ response.body = "json"
         /\ DOMAIN entries' = DOMAIN entries \cup {item}
         /\ entries'[item] = CacheEntry(GetOr(response.headers, "ETag", ""),
                                        GetOr(response.headers, "Last-Modified", ""),
                                        StampAll(response.payload, item))
         /\ \A k \in DOMAIN entries \ {item} : entries'[k] = entries[k]]_vars

\* C27 witness: key 34, held with validators e0 and m0, got an error reply
\* and then a 200 carrying only an ETag: its entry was replaced as a whole,
\* the entry of key 35 is the one the call started with
C27_Witness ==
    /\ op = "history" /\ pc = "done" /\ use_cache /\ type_ids = <<34>>
    /\ item_errors = <<1>> /\ pages_ok = <<1>> /\ put_keys = {34}
    /\ DOMAIN entries = Keys
    /\ entries[34] = CacheEntry("e1", "", <<[date |-> "d2", type_id |-> 34],
                                            [date |-> "d1", type_id |-> 34]>>)
    /\ entries[35] = CacheEntry("e0", "m0", <<[date |-> "d0", type_id |-> 35]>>)

\* position i has reached a terminal state: cache hit, success or failed
Terminal(i) == outcome[i] \in {"hit", "success", "failed"}

\* C28: every key fetch_market_history processes ends in exactly one of
\* cache hit, success and failed: when the call has ended, every position
\* it took up is terminal, and so is every position the loop has left; a
\* position that is terminal keeps its state and gets no further request;
\* and a retry that has been decided (the back-off sleep) is followed by a
\* new request for the key: the while test still holds.
C28_OneTerminalState ==
    /\ [](op = "history" =>
            /\ pc \in {"done", "raised"} =>
                 \A i \in 1..items_processed : Terminal(i)
            /\ \A i \in 1..Len(type_ids) : Finished(i) => Terminal(i)
            /\ pc = "sleep" => page <= max_pages)
    /\ [][op = "history" =>
            \A i \in 1..Len(type_ids) :
                Terminal(i) => /\ outcome'[i] = outcome[i]
                               /\ item_requests'[i] = item_requests[i]]_vars

\* C29: in fetch_market_history, handling a retryable failure raises
\* error_count by one, be it a request that timed out or a reply with a
\* status other than 200 and 304.
C29_FailureCountsOneError ==
    [][(/\ op = "history" /\ pc = "handle"
        /\ \/ response.timeout
           \/ ~response.timeout /\ response.status \notin {200, 304})
       => result'.error_count = result.error_count + 1]_vars

\* C30: in fetch_market_history, handling a reply with a status other than
\* 200 and 304 that reports a remaining error budget below 2 puts the call
\* to sleep for the reported reset duration, 60 when none is reported, with
\* the retry counter, failed_items and the key's state as they were,
\* whatever the retry counter is (the budget test comes before the retry
\* limit); after the sleep the loop is back at the same key and page.
C30_CooldownBeforeRetryLimit ==
    /\ [][(/\ op = "history" /\ pc = "handle"
           /\ ~response.timeout /\ response.status \notin {200, 304}
           /\ "X-ESI-Error-Limit-Remain" \in DOMAIN response.headers
           /\ response.headers["X-ESI-Error-Limit-Remain"] < 2)
          => /\ pc' = "sleep"
             /\ sleep_time' = IF "X-ESI-Error-Limit-Reset" \in DOMAIN response.headers
                              THEN response.headers["X-ESI-Error-Limit-Reset"]
                              ELSE 60
             /\ retries' = retries
             /\ result'.failed_items = result.failed_items
             /\ outcome' = outcome
             /\ items_processed' = items_processed /\ page' = page]_vars
    /\ [][(op = "history" /\ pc = "sleep")
          => /\ pc' = "while"
             /\ items_processed' = items_processed /\ page' = page
             /\ retries' = retries]_vars

\* C30 witness: the key's only local retry was used on a first error, and
\* a second error reporting a low budget without a reset duration put the
\* call to sleep for 60 instead of failing the key
C30_Witness ==
    /\ op = "history" /\ pc = "sleep" /\ sleep_time = 60
    /\ max_retries = MaxRetries /\ retries = max_retries
    /\ requests = 2 /\ result.error_count = 2
    /\ result.failed_items = <<>> /\ outcome[items_processed] = "pending"

\* a request of the fetch has failed: it timed out, or its reply has an
\* error status (in fetch_market_history a status other than 200 and 304)
FailureHandled ==
    /\ pc = "handle"
    /\ \/ response.timeout
       \/ op = "orders" /\ response.status # 200
       \/ op = "history" /\ response.status \notin {200, 304}

\* the step gives the page or key up: the key is marked failed, or the
\* orders call ends without the page
GivesUp ==
    \/ op = "history" /\ outcome'[items_processed] = "failed"
    \/ op = "orders" /\ pc' \in {"done", "raised"}

\* C31: in both fetch operations the retry counter stays within
\* 0..max_retries; it is 0 after every step that accepts a page and when the
\* next key starts; and handling a failure (error status or timeout) gives
\* the page or key up exactly when the counter equals max_retries.
C31_RetryBudget ==
    /\ [](retries >= 0 /\ retries <= max_retries)
    /\ [][/\ (pc = "handle" /\ page' = page + 1) => retries' = 0
          /\ items_processed' # items_processed => (retries = 0 /\ retries' = 0)
          /\ FailureHandled => (GivesUp <=> retries = max_retries)]_vars

\* the step is a backoff retry: it increments the retry counter
BackoffRetry == pc = "handle" /\ retries' = retries + 1

\* C32: the delay slept before the n-th consecutive backoff retry of a page
\* or key, n = 0 .. max_retries - 1, is retry_delay * retry_backoff^n with n
\* the retry counter before its increment, for retries after an error status
\* and after a timeout alike, in both fetch operations; and it is no shorter
\* than the delay of the retry before it.
C32_BackoffDelay ==
    [][BackoffRetry =>
         /\ retries \in 0..(max_retries - 1)
         /\ pc' = "sleep"
         /\ sleep_time' = RetryDelay * Pow(RetryBackoff, retries)
         /\ retries >= 1 =>
              sleep_time' >= RetryDelay * Pow(RetryBackoff, retries - 1)]_vars

\* C32 witness: a key of fetch_market_history got an error status, slept
\* retry_delay, then timed out and now sleeps retry_delay * retry_backoff
C32_Witness ==
    /\ op = "history" /\ pc = "sleep"
    /\ requests = 2 /\ retries = 2 /\ result.error_count = 1
    /\ sleep_time = RetryDelay * RetryBackoff
    /\ sleep_time > RetryDelay

\* C33: in fetch_market_history the retry caused by a 304 against a cache
\* entry without records happens at most once per key: when such a 304 is
\* handled, the key has not yet been retried without the cache.
C33_DegradedRetryOnce ==
    [][(/\ op = "history" /\ pc = "handle" /\ use_cache
        /\ ~response.timeout /\ response.status = 304
        /\ ~has_data(item))
       => ~skip_cache]_vars

\* C34: fetch_market_history terminates whatever the server does.  Stated
\* through the progress every handled reply must make for the number of
\* requests of a key to be bounded: the call does not end by an exception,
\* and handling a reply or a timeout either ends the key (hit, success or
\* failed), or moves to the next page, or uses up one of the max_retries
\* retries, or uses up the one retry without the cache.
C34_EveryReplyMakesProgress ==
    [][(op = "history" /\ pc = "handle") =>
         /\ pc' # "raised"
         /\ \/ Terminal(items_processed)'
            \/ page' = page + 1
            \/ retries' = retries + 1 /\ retries' <= max_retries
            \/ ~skip_cache /\ skip_cache']_vars

\* the positions of type_ids that ended as a cache hit
HitPositions == {i \in 1..Len(type_ids) : outcome[i] = "hit"}

\* C35: cache_hits counts keys, not replies.  In every state of
\* fetch_market_history, and so when it returns, cache_hits is the number of
\* positions answered 304 against a cache entry with records, and
\* cache_hits + len(failed_items) is at most the number of positions taken
\* up; cache_hits only changes by one, when such a 304 is handled for a
\* position not yet counted, which ends that position.
C35_CacheHitsCountKeys ==
    /\ [](op = "history" =>
            /\ result.cache_hits = Cardinality(HitPositions)
            /\ result.cache_hits + Len(result.failed_items) <= items_processed
            /\ items_processed <= Len(type_ids))
    /\ [][(op = "history" /\ result'.cache_hits # result.cache_hits) =>
            /\ result'.cache_hits = result.cache_hits + 1
            /\ pc = "handle" /\ use_cache
            /\ ~response.timeout /\ response.status = 304
            /\ item \in DOMAIN entries /\ entries[item].data # <<>>
            /\ items_processed \notin HitPositions
            /\ pc' = "after_while"]_vars

\* C35 witness: of two keys the first was a cache hit and the second
\* failed: the call returned with cache_hits 1 and one failed key, none
\* freshly fetched
C35_Witness ==
    /\ op = "history" /\ pc = "done" /\ type_ids = <<34, 35>>
    /\ outcome = <<"hit", "failed">>
    /\ result.cache_hits = 1 /\ result.failed_items = <<35>>
    /\ Len(type_ids) - result.cache_hits - Len(result.failed_items) = 0

\* C36: in fetch_market_orders the page requested next is always
\* pages_fetched + 1, and data grows only by the step that accepts the reply
\* to the request for that page: the whole payload is appended once at the
\* end of data and page and pages_fetched both advance by one.  No other
\* step (retry, decode error, change of X-Pages, stop) changes data, page or
\* pages_fetched, so data is the payloads of pages 1..pages_fetched in page
\* order, none twice and none skipped.
C36_OrdersPagesInOrder ==
    /\ [](op = "orders" => page = result.pages_fetched + 1)
    /\ [][op = "orders" =>
            \/ /\ pc = "handle" /\ ~response.timeout
               /\ response.status = 200 /\ response.body = "json"
               /\ response.payload # <<>>
               /\ result'.data = result.data \o response.payload
               /\ result'.pages_fetched = result.pages_fetched + 1
               /\ page' = page + 1
            \/ /\ result'.data = result.data
               /\ result'.pages_fetched = result.pages_fetched
               /\ page' = page]_vars

\* C36 witness: page 1 (one order) and page 2 (two orders) were accepted
\* with one failed request between them: data holds the three orders in
\* page order and the next page would be 3
C36_Witness ==
    /\ op = "orders" /\ pc = "done"
    /\ requests = 3 /\ result.error_count = 1
    /\ result.pages_fetched = 2 /\ page = 3
    /\ result.data = <<[order_id |-> 1], [order_id |-> 2], [order_id |-> 3]>>

\* C37: when a fetch call returns, total_retries is the number of backoff
\* retries made during the call.  Stated through the running count:
\* total_retries plus the retry counter not yet added to it rises by one with
\* every backoff retry and by nothing else, and nothing remains to be added
\* when the call has returned.
C37_TotalRetriesCountsAll ==
    /\ [][result'.total_retries + retries' =
            result.total_retries + retries + (IF BackoffRetry THEN 1 ELSE 0)]_vars
    /\ [](pc = "done" => retries = 0)

\* the records the call appended to data for the position the loop is at,
\* which are the last ones of data
AppendedForItem ==
    SubSeq(result.data, Len(result.data) - appended[items_processed] + 1, Len(result.data))

\* C38: when fetch_market_history, with a cache, has finished a key
\* successfully, the cache entry of the key holds exactly the records the
\* call appended to data for it, whatever the number of pages reported.
C38_CacheHoldsAppended ==
    (/\ op = "history" /\ use_cache /\ pc = "after_while"
     /\ outcome[items_processed] = "success")
    => /\ item \in DOMAIN entries
       /\ entries[item].data = AppendedForItem

\* C39: within one call of fetch_market_history, a key for which a 200 reply
\* was accepted is not afterwards counted as a cache hit: a position that
\* ended as a cache hit had no page accepted before, so the cached records
\* are the only records appended for it.
C39_NoHitAfterFresh ==
    op = "history" =>
        \A i \in 1..Len(type_ids) :
            outcome[i] = "hit" =>
                /\ pages_ok[i] = 0
                /\ i = items_processed =>
                     AppendedForItem = entries[type_ids[i]].data

\* the callers in the refill wait of acquire()
Sleepers == {c \in Callers : caller_pc[c] = "sleeping"}

\* C40: the limiter's lock is held only inside acquire(), by a caller in
\* the refill wait: it is held exactly when one caller sleeps there, and a
\* caller outside acquire() (in its network call or backoff sleep) or queued
\* for the lock does not hold it.  At most one caller is in the refill wait;
\* while it is, no token is consumed except by that caller; and the lock is
\* handed out in the order of arrival: a queued caller gets it only as the
\* first of the queue, and a new caller gets it at once only when it is free
\* and nobody is queued.
C40_LockOnlyInsideAcquire ==
    /\ [](/\ Cardinality(Sleepers) <= 1
          /\ locked <=> Sleepers # {}
          /\ \A i \in 1..Len(waiters) : caller_pc[waiters[i]] = "waiting"
          /\ \A c \in Callers :
               caller_pc[c] = "waiting" => \E i \in 1..Len(waiters) : waiters[i] = c)
    /\ [][/\ \A c \in Sleepers :
               (completed' # completed \/ tokens' < tokens) =>
                   (caller_pc'[c] = "idle" /\ completed' = completed + 1)
          /\ \A c \in Callers :
               (caller_pc[c] = "waiting" /\ caller_pc'[c] # "waiting") =>
                   (~locked /\ Head(waiters) = c /\ waiters' = Tail(waiters))
          /\ (started' # started /\ waiters' = waiters) =>
               (~locked /\ waiters = <<>>)]_vars

\* C40 witness: the bucket being empty after one call, caller 1 sleeps in
\* the refill wait holding the lock and caller 2 is queued behind it
C40_Witness ==
    /\ op = "none" /\ locked
    /\ caller_pc = <<"sleeping", "waiting">> /\ waiters = <<2>>
    /\ completed = 1 /\ started = 3 /\ tokens < TokenUnit

====
